----------------------------- MODULE Compilers_proofs -----------------------------
(***************************************************************************)
(* Proofs about runCompilers, for both callers, parallel and serial, and   *)
(* for every choice of what may go wrong.  The messages of a worker and    *)
(* where it is tell each other's past: a worker that posted a failure is   *)
(* at its end, and what it printed was posted before the failure.          *)
(***************************************************************************)
EXTENDS Compilers, SequenceTheorems, TLAPS

Pc == {"none", "starting", "running", "finishing", "failed", "closed", "dead"}

FileName == {"reflection", "bc", "cl", "shader", "wasm", "wasmMap", "device-pch", "host-pch"}

WorkerRecord == [pc : Pc, cmd : Nat, files : SUBSET FileName]

Message ==
    [type : {"feedback"}, cmd : Nat, err : BOOLEAN] \cup {Err}
        \cup [type : {"res"}, files : SUBSET FileName]

TypeOK ==
    /\ stages \in {Precompile, Compile} /\ parallel \in BOOLEAN
    /\ worker \in [Job -> WorkerRecord]
    /\ inbox \in [Job -> Seq(Message)]
    /\ promise \in [Job -> {"none", "pending", "resolved", "rejected"}]
    /\ data \in [Job -> (SUBSET FileName) \cup {None}]
    /\ outcome \in {"pending", "resolved", "rejected"}
    /\ shown \in Seq(Job \X Nat \X BOOLEAN)

\* Where a worker is, what it will post and what its promise may be.
JobOK(j) ==
    /\ worker[j].pc = "running" => worker[j].cmd \in 1 .. Len(CommandsOf(j))
    /\ worker[j].pc = "finishing" => worker[j].files \in Files(j)
    /\ promise[j] = "none" <=> worker[j].pc = "none"
    /\ worker[j].pc = "none" => inbox[j] = <<>>
    /\ promise[j] = "rejected" => worker[j].pc \in {"failed", "closed"}
    /\ promise[j] = "resolved" => data[j] \in Files(j)
    /\ data[j] \in Files(j) \cup {None}

Printed(m) == m.type = "feedback" /\ m.err

\* What a failed command printed is on the terminal.
Explained(j) == <<j, worker[j].cmd, TRUE>> \in Range(shown)

\* Each message that was not taken yet.
MessageOK(j, i) ==
    LET m == inbox[j][i] IN
    /\ m.type = "res" => m.files \in Files(j)
    /\ m.type = "err" => worker[j].pc \in {"failed", "closed"}
    /\ Printed(m) => worker[j].pc = "failed" /\ m.cmd = worker[j].cmd
    /\ m.type = "err" /\ worker[j].pc = "failed" =>
           outcome = "rejected" \/ Explained(j) \/ \E k \in 1 .. i - 1 : Printed(inbox[j][k])

InboxOK(j) == \A i \in 1 .. Len(inbox[j]) : MessageOK(j, i)

\* The inductive invariant.
IInv ==
    /\ TypeOK
    /\ \A j \in Job : JobOK(j) /\ InboxOK(j)
    /\ outcome = "pending" => \A j \in Job : promise[j] # "rejected"
    /\ FailureIsExplained

-----------------------------------------------------------------------------------
(* The messages.                                                              *)

LEMMA JobFacts == 1 \in Job /\ 2 \in Job /\ Job \subseteq Nat /\ \A j \in Job : j = 1 \/ j = 2
  BY DEF Job

\* What a message is by its type.
LEMMA MessageFacts ==
    /\ Err \in Message /\ Err.type = "err"
    /\ \A c \in Nat, b \in BOOLEAN : [type |-> "feedback", cmd |-> c, err |-> b] \in Message
    /\ \A f \in SUBSET FileName : Res(f) \in Message
    /\ \A m \in Message :
              /\ m.type \in {"feedback", "err", "res"}
              /\ m.type = "feedback" => m.cmd \in Nat /\ m.err \in BOOLEAN
              /\ m.type = "res" => m.files \in SUBSET FileName
<1>1. Err \in Message /\ Err.type = "err"
  BY DEF Message, Err
<1>2. ASSUME NEW c \in Nat, NEW b \in BOOLEAN
      PROVE  [type |-> "feedback", cmd |-> c, err |-> b] \in Message
  BY DEF Message
<1>3. ASSUME NEW f \in SUBSET FileName PROVE Res(f) \in Message
  BY DEF Message, Res
<1>4. ASSUME NEW m \in Message
      PROVE  /\ m.type \in {"feedback", "err", "res"}
             /\ m.type = "feedback" => m.cmd \in Nat /\ m.err \in BOOLEAN
             /\ m.type = "res" => m.files \in SUBSET FileName
  BY DEF Message, Err
<1> QED BY <1>1, <1>2, <1>3, <1>4

\* Messages that are posted come behind those that wait.
LEMMA PostedFacts ==
    ASSUME NEW s \in Seq(Message), NEW t \in Seq(Message)
    PROVE  /\ s \o t \in Seq(Message) /\ Len(s) \in Nat /\ Len(t) \in Nat
           /\ Len(s \o t) = Len(s) + Len(t)
           /\ \A i \in 1 .. Len(s) : (s \o t)[i] = s[i]
           /\ \A i \in 1 .. Len(t) : (s \o t)[Len(s) + i] = t[i]
<1>1. /\ s \o t \in Seq(Message) /\ Len(s \o t) = Len(s) + Len(t)
      /\ \A i \in 1 .. Len(s) + Len(t) :
             (s \o t)[i] = IF i <= Len(s) THEN s[i] ELSE t[i - Len(s)]
  BY ConcatProperties
<1>2. Len(s) \in Nat /\ Len(t) \in Nat
  OBVIOUS
<1>3. \A i \in 1 .. Len(s) : (s \o t)[i] = s[i]
  BY <1>1, <1>2
<1>4. ASSUME NEW i \in 1 .. Len(t) PROVE (s \o t)[Len(s) + i] = t[i]
  <2>1. Len(s) + i \in 1 .. Len(s) + Len(t) /\ ~(Len(s) + i <= Len(s))
        /\ (Len(s) + i) - Len(s) = i
    BY <1>2
  <2> QED BY <1>1, <2>1
<1> QED BY <1>1, <1>2, <1>3, <1>4

LEMMA TakenFacts ==
    ASSUME NEW s \in Seq(Message), s # <<>>
    PROVE  /\ Head(s) = s[1] /\ Head(s) \in Message /\ 1 \in 1 .. Len(s) /\ Len(s) \in Nat
           /\ Tail(s) \in Seq(Message) /\ Len(Tail(s)) = Len(s) - 1
           /\ \A i \in 1 .. Len(s) - 1 : Tail(s)[i] = s[i + 1] /\ i + 1 \in 1 .. Len(s)
  OBVIOUS

LEMMA SingleFacts ==
    ASSUME NEW m \in Message
    PROVE  <<m>> \in Seq(Message) /\ Len(<<m>>) = 1 /\ <<m>>[1] = m
  OBVIOUS

\* The feedback that was shown stays on the terminal.
LEMMA ShownFacts ==
    ASSUME NEW S, NEW s \in Seq(S), NEW e \in S
    PROVE  /\ Append(s, e) \in Seq(S) /\ e \in Range(Append(s, e))
           /\ Range(s) \subseteq Range(Append(s, e))
<1>1. /\ Append(s, e) \in Seq(S) /\ Len(Append(s, e)) = Len(s) + 1 /\ Len(s) \in Nat
      /\ \A i \in 1 .. Len(s) : Append(s, e)[i] = s[i]
      /\ Append(s, e)[Len(s) + 1] = e
  BY AppendProperties
<1>2. DOMAIN Append(s, e) = 1 .. Len(s) + 1 /\ DOMAIN s = 1 .. Len(s)
  BY <1>1
<1>3. e \in Range(Append(s, e))
  BY <1>1, <1>2 DEF Range
<1>4. ASSUME NEW x \in Range(s) PROVE x \in Range(Append(s, e))
  <2>1. PICK i \in 1 .. Len(s) : s[i] = x
    BY <1>2 DEF Range
  <2>2. i \in DOMAIN Append(s, e) /\ Append(s, e)[i] = x
    BY <1>1, <1>2, <2>1
  <2> QED BY <2>2 DEF Range
<1> QED BY <1>1, <1>3, <1>4

-----------------------------------------------------------------------------------
(* The commands and the files of a job.                                       *)

LEMMA CommandFacts ==
    ASSUME TypeOK, NEW j \in Job
    PROVE  /\ Len(CommandsOf(j)) \in Nat \ {0}
           /\ AllFiles(j) \in Files(j)
           /\ Files(j) \subseteq SUBSET FileName
           /\ \A c \in 1 .. Len(CommandsOf(j)) : CommandsOf(j)[c] = "clspv-reflection" => j = 1
<1>1. stages[1] \in {"device-pch", "device"} /\ stages[2] \in {"host-pch", "host"}
  BY DEF TypeOK, Precompile, Compile
<1>2. DOMAIN Commands = {"device", "host"}
  BY DEF Commands
<1>3. /\ Commands["device"] = <<"clang++", "clspv", "clspv-reflection", "spirv-tools-opt", "tint">>
      /\ Commands["host"] = <<"clang++", "wasm-ld">>
  BY DEF Commands
<1>4. \/ CommandsOf(j) = <<"clang++">>
      \/ CommandsOf(j) = <<"clang++", "wasm-ld">>
      \/ CommandsOf(j) = <<"clang++", "clspv", "clspv-reflection", "spirv-tools-opt", "tint">>
  BY <1>1, <1>2, <1>3, JobFacts DEF CommandsOf
<1>5. Len(CommandsOf(j)) \in Nat \ {0}
  BY <1>4
<1>6. AllFiles(j) \in Files(j)
  <2>1. CASE j = 1
    BY <1>1, <2>1, stages[1] \in {"device-pch", "device"}, Precompile[1] = "device-pch"
    DEF AllFiles, Files, Precompile
  <2>2. CASE j = 2
    BY <1>1, <2>2, Precompile[2] = "host-pch" DEF AllFiles, Files, Precompile
  <2> QED BY <2>1, <2>2, JobFacts
<1>7. Files(j) \subseteq SUBSET FileName
  BY JobFacts DEF Files, FileName, Precompile
<1>8. ASSUME NEW c \in 1 .. Len(CommandsOf(j)), CommandsOf(j)[c] = "clspv-reflection"
      PROVE  j = 1
  <2> SUFFICES ASSUME j = 2 PROVE FALSE
    BY JobFacts
  <2>1. CommandsOf(j) = <<"clang++">> \/ CommandsOf(j) = <<"clang++", "wasm-ld">>
    BY <1>1, <1>2, <1>3 DEF CommandsOf
  <2> QED BY <1>8, <2>1
<1> QED BY <1>5, <1>6, <1>7, <1>8

-----------------------------------------------------------------------------------
(* The workers.                                                               *)

\* What a step of a worker that runs may do: it posts no failure unless it ends
\* with it, and nothing that was printed about one but before it.
LEMMA Advances ==
    ASSUME IInv, NEW j \in Job, worker[j].pc \in Running,
           NEW w \in WorkerRecord, w.pc # "none", NEW msgs \in Seq(Message),
           worker' = [worker EXCEPT ![j] = w],
           inbox' = [inbox EXCEPT ![j] = @ \o msgs],
           UNCHANGED Page,
           w.pc = "running" => w.cmd \in 1 .. Len(CommandsOf(j)),
           w.pc = "finishing" => w.files \in Files(j),
           \A i \in 1 .. Len(msgs) :
               /\ msgs[i].type = "res" => msgs[i].files \in Files(j)
               /\ msgs[i].type = "err" => w.pc \in {"failed", "closed"}
               /\ Printed(msgs[i]) => w.pc = "failed" /\ msgs[i].cmd = w.cmd
               /\ msgs[i].type = "err" /\ w.pc = "failed" => \E k \in 1 .. i - 1 : Printed(msgs[k])
    PROVE  IInv'
<1> USE DEF IInv
<1>1. /\ worker \in [Job -> WorkerRecord] /\ inbox \in [Job -> Seq(Message)]
      /\ inbox[j] \in Seq(Message)
  BY DEF TypeOK
<1>2. /\ worker' \in [Job -> WorkerRecord] /\ worker'[j] = w
      /\ \A k \in Job \ {j} : worker'[k] = worker[k]
  BY <1>1
<1>3. /\ inbox' \in [Job -> Seq(Message)] /\ inbox'[j] = inbox[j] \o msgs
      /\ \A k \in Job \ {j} : inbox'[k] = inbox[k]
  BY <1>1, PostedFacts
<1>4. UNCHANGED <<stages, parallel, promise, data, outcome, shown>>
  BY DEF Page, setting
<1>5. TypeOK'
  BY <1>2, <1>3, <1>4 DEF TypeOK
<1>6. ASSUME NEW k \in Job \ {j} PROVE JobOK(k)' /\ InboxOK(k)'
  <2>1. JobOK(k) /\ InboxOK(k) /\ worker'[k] = worker[k] /\ inbox'[k] = inbox[k]
    BY <1>2, <1>3
  <2>2. JobOK(k)'
    BY <1>4, <2>1 DEF JobOK, CommandsOf
  <2>3. InboxOK(k)'
    <3> SUFFICES ASSUME NEW i \in 1 .. Len(inbox'[k]) PROVE MessageOK(k, i)'
      BY DEF InboxOK
    <3>1. MessageOK(k, i)
      BY <2>1 DEF InboxOK
    <3> QED BY <1>4, <2>1, <3>1 DEF MessageOK, Explained
  <2> QED BY <2>2, <2>3
<1>7. JobOK(j)'
  <2>1. CommandsOf(j)' = CommandsOf(j)
    BY <1>4 DEF CommandsOf
  <2> QED BY <1>2, <1>4, <2>1 DEF JobOK, Running
<1>8. \A i \in 1 .. Len(inbox[j]) : inbox[j][i].type # "err" /\ ~Printed(inbox[j][i])
  BY DEF InboxOK, MessageOK, Running
<1>9. ASSUME NEW i \in 1 .. Len(inbox'[j]) PROVE MessageOK(j, i)'
  <2>1. CASE i \in 1 .. Len(inbox[j])
    <3>1. inbox'[j][i] = inbox[j][i]
      BY <1>1, <1>3, <2>1, PostedFacts
    <3>2. inbox[j][i].type = "res" => inbox[j][i].files \in Files(j)
      BY <2>1 DEF InboxOK, MessageOK
    <3> QED BY <1>8, <2>1, <3>1, <3>2 DEF MessageOK, Printed
  <2>2. CASE i \notin 1 .. Len(inbox[j])
    <3> DEFINE n == i - Len(inbox[j])
    <3>1. n \in 1 .. Len(msgs) /\ i = Len(inbox[j]) + n /\ Len(inbox[j]) \in Nat
      BY <1>1, <1>3, <2>2, PostedFacts
    <3> HIDE DEF n
    <3>2. inbox'[j][i] = msgs[n]
      BY <1>1, <1>3, <3>1, PostedFacts
    <3>3. ASSUME NEW k \in 1 .. n - 1, Printed(msgs[k])
          PROVE  \E l \in 1 .. i - 1 : Printed(inbox'[j][l])
      <4>1. Len(inbox[j]) + k \in 1 .. i - 1 /\ k \in 1 .. Len(msgs)
        BY <1>1, <3>1, PostedFacts
      <4>2. inbox'[j][Len(inbox[j]) + k] = msgs[k]
        BY <1>1, <1>3, <4>1, PostedFacts
      <4> QED BY <3>3, <4>1, <4>2
    <3> QED BY <1>2, <3>1, <3>2, <3>3 DEF MessageOK, Printed
  <2> QED BY <2>1, <2>2
<1>10. InboxOK(j)'
  BY <1>9 DEF InboxOK
<1>11. (outcome = "pending" => \A k \in Job : promise[k] # "rejected")'
  BY <1>4
<1>12. FailureIsExplained'
  <2> SUFFICES ASSUME outcome' = "rejected"
               PROVE  \E k \in Job : /\ promise'[k] = "rejected"
                                     /\ worker'[k].pc = "failed" =>
                                            <<k, worker'[k].cmd, TRUE>> \in Range(shown')
    BY DEF FailureIsExplained
  <2>1. PICK k \in Job : /\ promise[k] = "rejected"
                         /\ worker[k].pc = "failed" => <<k, worker[k].cmd, TRUE>> \in Range(shown)
    BY <1>4 DEF FailureIsExplained
  <2>2. k # j
    BY <2>1 DEF JobOK, Running
  <2> QED BY <1>2, <1>4, <2>1, <2>2
<1> QED BY <1>5, <1>6, <1>7, <1>10, <1>11, <1>12

\* A step that posts nothing.
LEMMA AdvancesSilently ==
    ASSUME IInv, NEW j \in Job, worker[j].pc \in Running,
           NEW w \in WorkerRecord, w.pc \notin {"none", "finishing"},
           worker' = [worker EXCEPT ![j] = w], UNCHANGED <<inbox, Page>>,
           w.pc = "running" => w.cmd \in 1 .. Len(CommandsOf(j))
    PROVE  IInv'
<1>1. inbox \in [Job -> Seq(Message)] /\ inbox[j] \in Seq(Message)
  BY DEF IInv, TypeOK
<1>2. inbox[j] \o <<>> = inbox[j]
  BY <1>1, ConcatEmptySeq
<1>3. inbox' = [inbox EXCEPT ![j] = @ \o <<>>]
  BY <1>1, <1>2
<1>4. <<>> \in Seq(Message) /\ Len(<<>>) = 0
  OBVIOUS
<1>5. \A i \in 1 .. Len(<<>>) : FALSE
  BY <1>4
<1> QED BY <1>3, <1>4, <1>5, Advances

LEMMA WorkerStepKeeps == ASSUME IInv, NEW j \in Job, WorkerStep(j) PROVE IInv'
<1>1. worker[j] \in WorkerRecord /\ TypeOK /\ JobOK(j)
  BY DEF IInv, TypeOK
<1>2. /\ worker[j].cmd \in Nat /\ worker[j].files \in SUBSET FileName
      /\ \A p \in Pc, c \in Nat : [worker[j] EXCEPT !.pc = p, !.cmd = c] \in WorkerRecord
      /\ \A p \in Pc, f \in SUBSET FileName : [worker[j] EXCEPT !.pc = p, !.files = f] \in WorkerRecord
  BY <1>1 DEF WorkerRecord
<1>3. \A p \in Pc, c \in Nat : LET w == [worker[j] EXCEPT !.pc = p, !.cmd = c] IN
          w.pc = p /\ w.cmd = c
  BY <1>1 DEF WorkerRecord
<1>4. \A p \in Pc, f \in SUBSET FileName : LET w == [worker[j] EXCEPT !.pc = p, !.files = f] IN
          w.pc = p /\ w.files = f /\ w.cmd = worker[j].cmd
  BY <1>1 DEF WorkerRecord
<1>5. Pc = {"none", "starting", "running", "finishing", "failed", "closed", "dead"}
  BY DEF Pc
<1>6. /\ Len(CommandsOf(j)) \in Nat \ {0} /\ AllFiles(j) \in Files(j)
      /\ AllFiles(j) \in SUBSET FileName
  BY <1>1, CommandFacts
<1> DEFINE quiet == Feedback(j, FALSE)
<1> DEFINE loud == Feedback(j, TRUE)
<1>7. /\ quiet \in Message /\ quiet.type = "feedback" /\ ~Printed(quiet)
      /\ loud \in Message /\ loud.type = "feedback" /\ Printed(loud)
      /\ loud.cmd = worker[j].cmd
  BY <1>2, MessageFacts DEF Feedback, Printed
<1>q. <<quiet>> \in Seq(Message) /\ Len(<<quiet>>) = 1 /\ <<quiet>>[1] = quiet
  BY <1>7, SingleFacts
<1>l. /\ <<loud, Err>> \in Seq(Message) /\ Len(<<loud, Err>>) = 2
      /\ <<loud, Err>>[1] = loud /\ <<loud, Err>>[2] = Err
  <2> HIDE DEF loud
  <2> QED BY <1>7, MessageFacts
<1>8. CASE Loaded(j)
  <2> DEFINE w == [worker[j] EXCEPT !.pc = "running", !.cmd = 1]
  <2>1. w \in WorkerRecord /\ w.pc = "running" /\ w.cmd = 1
    BY <1>2, <1>3, <1>5
  <2>2. worker[j].pc \in Running /\ worker' = [worker EXCEPT ![j] = w] /\ UNCHANGED <<inbox, Page>>
    BY <1>8 DEF Loaded, Move, Running
  <2> HIDE DEF w
  <2>3. w.cmd \in 1 .. Len(CommandsOf(j))
    BY <1>6, <2>1
  <2> QED BY <2>1, <2>2, <2>3, AdvancesSilently
<1>9. CASE Dies(j)
  <2> DEFINE w == [worker[j] EXCEPT !.pc = "dead", !.cmd = worker[j].cmd]
  <2>1. w \in WorkerRecord /\ w.pc = "dead"
    BY <1>2, <1>3, <1>5
  <2>2. worker[j].pc \in Running /\ worker' = [worker EXCEPT ![j] = w] /\ UNCHANGED <<inbox, Page>>
    BY <1>9 DEF Dies, Move
  <2> HIDE DEF w
  <2> QED BY <2>1, <2>2, AdvancesSilently
<1>10. CASE NoKernels(j)
  <2> DEFINE f == {"reflection", "shader"}
  <2> DEFINE w == [worker[j] EXCEPT !.pc = "finishing", !.files = f]
  <2> DEFINE msgs == <<quiet>>
  <2>1. f \in SUBSET FileName
    BY DEF FileName
  <2>2. w \in WorkerRecord /\ w.pc = "finishing" /\ w.files = f
    BY <1>2, <1>4, <1>5, <2>1
  <2>3. j = 1
    BY <1>1, <1>10, CommandFacts DEF NoKernels, JobOK
  <2>4. f \in Files(j)
    BY <2>3 DEF Files
  <2>5. msgs \in Seq(Message) /\ Len(msgs) = 1 /\ msgs[1] = quiet
    BY <1>q
  <2>6. /\ worker[j].pc \in Running /\ worker' = [worker EXCEPT ![j] = w]
        /\ inbox' = [inbox EXCEPT ![j] = @ \o msgs] /\ UNCHANGED Page
    BY <1>10 DEF NoKernels, Post, Running
  <2> HIDE DEF w, msgs, f, quiet
  <2>7. \A i \in 1 .. Len(msgs) : msgs[i].type = "feedback" /\ ~Printed(msgs[i])
    BY <1>7, <2>5
  <2> QED BY <2>2, <2>4, <2>5, <2>6, <2>7, Advances
<1>11. CASE CommandEnds(j)
  <2> DEFINE msgs == <<quiet>>
  <2>1. msgs \in Seq(Message) /\ Len(msgs) = 1 /\ msgs[1] = quiet
    BY <1>q
  <2>2. /\ worker[j].pc \in Running /\ worker[j].pc = "running"
        /\ inbox' = [inbox EXCEPT ![j] = @ \o msgs] /\ UNCHANGED Page
    BY <1>11 DEF CommandEnds, Post, Running
  <2> HIDE DEF msgs, quiet
  <2>3. \A i \in 1 .. Len(msgs) : msgs[i].type = "feedback" /\ ~Printed(msgs[i])
    BY <1>7, <2>1
  <2>4. CASE ~IsLast(j) /\ Move(j, "running", worker[j].cmd + 1)
    <3> DEFINE w == [worker[j] EXCEPT !.pc = "running", !.cmd = worker[j].cmd + 1]
    <3>0. worker[j].cmd + 1 \in Nat
      <4>1. worker[j].cmd \in Nat
        BY <1>2
      <4> QED BY ONLY <4>1
    <3>1. w \in WorkerRecord /\ w.pc = "running" /\ w.cmd = worker[j].cmd + 1
      BY <1>2, <1>3, <1>5, <3>0
    <3>2. worker' = [worker EXCEPT ![j] = w]
      BY <2>4 DEF Move
    <3> HIDE DEF w
    <3>3. w.cmd \in 1 .. Len(CommandsOf(j))
      BY <1>1, <1>6, <2>2, <2>4, <3>1 DEF JobOK, IsLast
    <3> QED BY <2>1, <2>2, <2>3, <3>1, <3>2, <3>3, Advances
  <2>5. CASE worker' = [worker EXCEPT ![j] = [@ EXCEPT !.pc = "finishing", !.files = AllFiles(j)]]
    <3> DEFINE w == [worker[j] EXCEPT !.pc = "finishing", !.files = AllFiles(j)]
    <3>1. w \in WorkerRecord /\ w.pc = "finishing" /\ w.files = AllFiles(j)
      BY <1>2, <1>4, <1>5, <1>6
    <3>2. worker' = [worker EXCEPT ![j] = w]
      BY <2>5
    <3> HIDE DEF w
    <3> QED BY <1>6, <2>1, <2>2, <2>3, <3>1, <3>2, Advances
  <2> QED BY <1>11, <2>4, <2>5 DEF CommandEnds
<1>12. CASE CommandFails(j)
  <2> DEFINE msgs == <<loud, Err>>
  <2> DEFINE w == [worker[j] EXCEPT !.pc = "failed", !.cmd = worker[j].cmd]
  <2>1. w \in WorkerRecord /\ w.pc = "failed" /\ w.cmd = worker[j].cmd
    BY <1>2, <1>3, <1>5
  <2>2. /\ msgs \in Seq(Message) /\ Len(msgs) = 2 /\ msgs[1] = loud /\ msgs[2] = Err
    BY <1>l
  <2>3. /\ worker[j].pc \in Running /\ worker' = [worker EXCEPT ![j] = w]
        /\ inbox' = [inbox EXCEPT ![j] = @ \o msgs] /\ UNCHANGED Page
    BY <1>12 DEF CommandFails, Post, Running, Move, FailurePosts
  <2> HIDE DEF w, msgs, loud
  <2>4. Printed(msgs[1]) /\ msgs[1].type = "feedback" /\ msgs[1].cmd = w.cmd
    BY <1>7, <2>1, <2>2
  <2>5. ~Printed(msgs[2]) /\ msgs[2].type = "err"
    BY <2>2, MessageFacts DEF Printed
  <2>6. ASSUME NEW i \in 1 .. Len(msgs)
        PROVE  /\ msgs[i].type # "res"
               /\ Printed(msgs[i]) => msgs[i].cmd = w.cmd
               /\ msgs[i].type = "err" => \E k \in 1 .. i - 1 : Printed(msgs[k])
    <3>1. i = 1 \/ i = 2
      BY <2>2
    <3>2. CASE i = 1
      BY <2>4, <3>2
    <3>3. CASE i = 2
      <4>1. 1 \in 1 .. i - 1
        BY <3>3
      <4> QED BY <2>4, <2>5, <3>3, <4>1
    <3> QED BY <3>1, <3>2, <3>3
  <2> QED BY <2>1, <2>2, <2>3, <2>6, Advances
<1>13. CASE Throws(j)
  <2> DEFINE msgs == <<Err>>
  <2> DEFINE w == [worker[j] EXCEPT !.pc = "closed", !.cmd = worker[j].cmd]
  <2>1. w \in WorkerRecord /\ w.pc = "closed"
    BY <1>2, <1>3, <1>5
  <2>2. msgs \in Seq(Message) /\ Len(msgs) = 1 /\ msgs[1] = Err
    BY MessageFacts
  <2>3. /\ worker[j].pc \in Running /\ worker' = [worker EXCEPT ![j] = w]
        /\ inbox' = [inbox EXCEPT ![j] = @ \o msgs] /\ UNCHANGED Page
    BY <1>13 DEF Throws, Post, Move
  <2> HIDE DEF w, msgs
  <2>4. \A i \in 1 .. Len(msgs) : msgs[i].type = "err" /\ ~Printed(msgs[i])
    BY <2>2, MessageFacts DEF Printed
  <2> QED BY <2>1, <2>2, <2>3, <2>4, Advances
<1>14. CASE Finish(j)
  <2>1. PICK late \in {<<>>} \cup {<<Err>> : f \in Fault \cap {"free"}} :
            Post(j, <<Res(worker[j].files)>> \o late)
    BY <1>14 DEF Finish
  <2> DEFINE r == Res(worker[j].files)
  <2> DEFINE msgs == <<r>> \o late
  <2> DEFINE w == [worker[j] EXCEPT !.pc = "closed", !.cmd = worker[j].cmd]
  <2>2. w \in WorkerRecord /\ w.pc = "closed"
    BY <1>2, <1>3, <1>5
  <2>3. /\ worker[j].pc = "finishing" /\ worker[j].pc \in Running
        /\ worker' = [worker EXCEPT ![j] = w]
        /\ inbox' = [inbox EXCEPT ![j] = @ \o msgs] /\ UNCHANGED Page
    BY <1>14, <2>1 DEF Finish, Post, Move, Running
  <2>4. r \in Message /\ r.type = "res" /\ r.files \in Files(j)
    BY <1>1, <1>2, <2>3, MessageFacts DEF Res, JobOK
  <2>5. late \in Seq(Message) /\ \A i \in 1 .. Len(late) : late[i] = Err
    <3>1. late = <<>> \/ late = <<Err>>
      BY <2>1
    <3>2. CASE late = <<>>
      BY <3>2
    <3>3. CASE late = <<Err>>
      <4>1. late \in Seq(Message) /\ Len(late) = 1 /\ late[1] = Err
        BY <3>3, MessageFacts, SingleFacts
      <4> QED BY <4>1
    <3> QED BY <3>1, <3>2, <3>3
  <2> HIDE DEF r, w
  <2>6. /\ msgs \in Seq(Message) /\ Len(msgs) \in Nat
        /\ \A i \in 1 .. Len(msgs) : msgs[i] = r \/ msgs[i] = Err
    <3>1. <<r>> \in Seq(Message) /\ Len(<<r>>) = 1 /\ <<r>>[1] = r
      BY <2>4
    <3>2. /\ msgs \in Seq(Message) /\ Len(msgs) = 1 + Len(late) /\ Len(late) \in Nat
          /\ msgs[1] = r /\ \A i \in 1 .. Len(late) : msgs[1 + i] = late[i]
      BY <2>5, <3>1, PostedFacts
    <3> HIDE DEF msgs
    <3>3. ASSUME NEW i \in 1 .. Len(msgs) PROVE msgs[i] = r \/ msgs[i] = Err
      <4>1. i = 1 \/ (i - 1 \in 1 .. Len(late) /\ 1 + (i - 1) = i)
        BY <3>2
      <4> QED BY <2>5, <3>2, <4>1
    <3> QED BY <3>2, <3>3
  <2> HIDE DEF msgs
  <2>7. \A i \in 1 .. Len(msgs) :
            /\ msgs[i].type \in {"res", "err"} /\ ~Printed(msgs[i])
            /\ msgs[i].type = "res" => msgs[i].files \in Files(j)
    BY <2>4, <2>6, MessageFacts DEF Printed
  <2>8. \A i \in 1 .. Len(msgs) :
            /\ msgs[i].type = "res" => msgs[i].files \in Files(j)
            /\ msgs[i].type = "err" => w.pc \in {"failed", "closed"}
            /\ Printed(msgs[i]) => w.pc = "failed" /\ msgs[i].cmd = w.cmd
            /\ msgs[i].type = "err" /\ w.pc = "failed" => \E k \in 1 .. i - 1 : Printed(msgs[k])
    <3> TAKE i \in 1 .. Len(msgs)
    <3>1. /\ ~Printed(msgs[i])
          /\ msgs[i].type = "res" => msgs[i].files \in Files(j)
      BY <2>7
    <3>2. w.pc \in {"failed", "closed"} /\ w.pc # "failed"
      BY <2>2
    <3> QED BY <3>1, <3>2
  <2>9. w.pc # "none" /\ w.pc # "running" /\ w.pc # "finishing"
    BY <2>2
  <2> QED BY <2>2, <2>3, <2>6, <2>8, <2>9, Advances
<1> QED BY <1>8, <1>9, <1>10, <1>11, <1>12, <1>13, <1>14 DEF WorkerStep

-----------------------------------------------------------------------------------
(* The page.                                                                  *)

LEMMA InitHolds == Init => IInv
<1> SUFFICES ASSUME Init PROVE IInv
  OBVIOUS
<1> USE DEF Init
<1>1. NoWorker \in WorkerRecord /\ NoWorker.pc = "none"
  BY DEF NoWorker, WorkerRecord, Pc
<1>2. TypeOK
  <2>1. worker \in [Job -> WorkerRecord]
    BY <1>1
  <2>2. <<>> \in Seq(Message) /\ <<>> \in Seq(Job \X Nat \X BOOLEAN)
    OBVIOUS
  <2>3. inbox \in [Job -> Seq(Message)]
    BY <2>2
  <2>4. promise \in [Job -> {"none", "pending", "resolved", "rejected"}]
    OBVIOUS
  <2>5. data \in [Job -> (SUBSET FileName) \cup {None}]
    <3>1. data = [j \in Job |-> None] /\ None \in (SUBSET FileName) \cup {None}
      OBVIOUS
    <3> QED BY ONLY <3>1
  <2>6. shown \in Seq(Job \X Nat \X BOOLEAN)
    BY <2>2
  <2>7. /\ stages \in {Precompile, Compile} /\ parallel \in BOOLEAN
        /\ outcome \in {"pending", "resolved", "rejected"}
    OBVIOUS
  <2> HIDE DEF Init
  <2> QED BY <2>1, <2>3, <2>4, <2>5, <2>6, <2>7 DEF TypeOK
<1>3. ASSUME NEW j \in Job PROVE JobOK(j) /\ InboxOK(j)
  BY <1>1 DEF JobOK, InboxOK
<1> QED BY <1>2, <1>3 DEF IInv, FailureIsExplained

LEMMA BeginKeeps == IInv /\ Begin => IInv'
<1> SUFFICES ASSUME IInv, Begin PROVE IInv'
  OBVIOUS
<1> USE DEF IInv
<1>1. NewWorker \in WorkerRecord /\ NewWorker.pc = "starting"
  BY DEF NewWorker, WorkerRecord, Pc
<1>2. UNCHANGED <<stages, parallel, inbox, data, outcome, shown>>
  BY DEF Begin, setting
<1>3. ASSUME NEW j \in Job
      PROVE  /\ worker[j] \in WorkerRecord /\ promise[j] = "none" /\ worker[j].pc = "none"
             /\ inbox[j] = <<>>
             /\ \/ worker'[j] = NewWorker /\ promise'[j] = "pending"
                \/ worker'[j] = worker[j] /\ promise'[j] = promise[j]
  BY DEF Begin, TypeOK, JobOK
<1>4. TypeOK'
  <2>1. worker' \in [Job -> WorkerRecord]
    BY <1>1, <1>3 DEF Begin
  <2>2. promise' \in [Job -> {"none", "pending", "resolved", "rejected"}]
    BY DEF Begin
  <2> QED BY <1>2, <2>1, <2>2 DEF TypeOK
<1>5. ASSUME NEW j \in Job PROVE JobOK(j)' /\ InboxOK(j)'
  <2>1. JobOK(j)'
    BY <1>1, <1>2, <1>3 DEF JobOK
  <2>2. InboxOK(j)'
    BY <1>2, <1>3 DEF InboxOK
  <2> QED BY <2>1, <2>2
<1>6. (outcome = "pending" => \A j \in Job : promise[j] # "rejected")'
  BY <1>3
<1>7. outcome' # "rejected"
  BY <1>2, <1>3, JobFacts DEF FailureIsExplained
<1> QED BY <1>4, <1>5, <1>6, <1>7 DEF FailureIsExplained

\* What Deliver assigns, by name.
LEMMA DeliverFacts ==
    ASSUME IInv, NEW j \in Job, Deliver(j)
    PROVE  \E m \in Message, p \in [Job -> {"none", "pending", "resolved", "rejected"}] :
             /\ inbox[j] # <<>> /\ m = Head(inbox[j])
             /\ inbox' = [inbox EXCEPT ![j] = Tail(@)]
             /\ \A k \in Job \ {j} : p[k] = promise[k]
             /\ p[j] = IF CutOff /\ m.type = "feedback" THEN promise[j] ELSE Settled(promise[j], m)
             /\ promise' \in [Job -> {"none", "pending", "resolved", "rejected"}]
             /\ worker' \in [Job -> WorkerRecord]
             /\ \A k \in Job :
                    \/ /\ promise'[k] = p[k] /\ worker'[k] = worker[k]
                    \/ /\ k # j /\ promise[k] = "none" /\ p[k] = "none"
                       /\ promise'[k] = "pending" /\ worker'[k] = NewWorker
             /\ data' = [data EXCEPT ![j] = IF @ = None /\ m.type = "res" THEN m.files ELSE @]
             /\ outcome' = IF outcome = "pending" THEN Overall(p) ELSE outcome
             /\ results' = IF outcome = "pending" /\ outcome' = "resolved" THEN data' ELSE results
             /\ shown' = IF m.type = "feedback" /\ ~CutOff
                         THEN Append(shown, <<j, m.cmd, m.err>>) ELSE shown
             /\ UNCHANGED <<stages, parallel>>
<1> USE DEF IInv
<1> DEFINE m == Head(inbox[j])
           p == [promise EXCEPT ![j] =
                    IF CutOff /\ m.type = "feedback" THEN @ ELSE Settled(@, m)]
           d == [data EXCEPT ![j] = IF @ = None /\ m.type = "res" THEN m.files ELSE @]
           next == Successor(j, p)
<1>1. /\ inbox[j] # <<>>
      /\ inbox' = [inbox EXCEPT ![j] = Tail(@)]
      /\ promise' = [k \in Job |-> IF k \in next THEN "pending" ELSE p[k]]
      /\ worker' = [k \in Job |-> IF k \in next THEN NewWorker ELSE worker[k]]
      /\ data' = d
      /\ outcome' = IF outcome = "pending" THEN Overall(p) ELSE outcome
      /\ results' = IF outcome = "pending" /\ outcome' = "resolved" THEN d ELSE results
      /\ shown' = IF m.type = "feedback" /\ ~CutOff
                  THEN Append(shown, <<j, m.cmd, m.err>>) ELSE shown
      /\ UNCHANGED <<stages, parallel>>
  BY DEF Deliver, setting
<1>2. m \in Message
  BY <1>1, TakenFacts DEF TypeOK
<1>3. promise \in [Job -> {"none", "pending", "resolved", "rejected"}]
  BY DEF TypeOK
<1>4. Settled(promise[j], m) \in {"none", "pending", "resolved", "rejected"}
  BY <1>3 DEF Settled
<1>5. /\ p \in [Job -> {"none", "pending", "resolved", "rejected"}]
      /\ p[j] = IF CutOff /\ m.type = "feedback" THEN promise[j] ELSE Settled(promise[j], m)
      /\ \A k \in Job \ {j} : p[k] = promise[k]
  BY <1>3, <1>4
<1> HIDE DEF p, m
<1>6. ASSUME NEW k \in next PROVE k \in Job /\ k # j /\ p[k] = "none" /\ promise[k] = "none"
  <2>1. k \in Job /\ k = j + 1 /\ p[k] = "none"
    BY <1>6 DEF Successor
  <2>2. k # j
    BY <2>1, JobFacts
  <2> QED BY <1>5, <2>1, <2>2
<1> HIDE DEF next
<1>7. promise' \in [Job -> {"none", "pending", "resolved", "rejected"}]
  BY <1>1, <1>5
<1>8. worker' \in [Job -> WorkerRecord]
  <2>1. NewWorker \in WorkerRecord
    BY DEF NewWorker, WorkerRecord, Pc
  <2> QED BY <1>1, <2>1 DEF TypeOK
<1>9. ASSUME NEW k \in Job
      PROVE  \/ promise'[k] = p[k] /\ worker'[k] = worker[k]
             \/ /\ k # j /\ promise[k] = "none" /\ p[k] = "none"
                /\ promise'[k] = "pending" /\ worker'[k] = NewWorker
  BY <1>1, <1>6
<1>10. data' = [data EXCEPT ![j] = IF @ = None /\ m.type = "res" THEN m.files ELSE @]
  BY <1>1
<1>11. results' = IF outcome = "pending" /\ outcome' = "resolved" THEN data' ELSE results
  BY <1>1
<1>12. m = Head(inbox[j])
  BY DEF m
<1> HIDE DEF d
<1> QED BY <1>1, <1>2, <1>5, <1>7, <1>8, <1>9, <1>10, <1>11, <1>12

LEMMA DeliverKeeps == ASSUME IInv, NEW j \in Job, Deliver(j) PROVE IInv'
<1> USE DEF IInv
<1>1. PICK m \in Message, p \in [Job -> {"none", "pending", "resolved", "rejected"}] :
             /\ inbox[j] # <<>> /\ m = Head(inbox[j])
             /\ inbox' = [inbox EXCEPT ![j] = Tail(@)]
             /\ \A k \in Job \ {j} : p[k] = promise[k]
             /\ p[j] = IF CutOff /\ m.type = "feedback" THEN promise[j] ELSE Settled(promise[j], m)
             /\ promise' \in [Job -> {"none", "pending", "resolved", "rejected"}]
             /\ worker' \in [Job -> WorkerRecord]
             /\ \A k \in Job :
                    \/ /\ promise'[k] = p[k] /\ worker'[k] = worker[k]
                    \/ /\ k # j /\ promise[k] = "none" /\ p[k] = "none"
                       /\ promise'[k] = "pending" /\ worker'[k] = NewWorker
             /\ data' = [data EXCEPT ![j] = IF @ = None /\ m.type = "res" THEN m.files ELSE @]
             /\ outcome' = IF outcome = "pending" THEN Overall(p) ELSE outcome
             /\ results' = IF outcome = "pending" /\ outcome' = "resolved" THEN data' ELSE results
             /\ shown' = IF m.type = "feedback" /\ ~CutOff
                         THEN Append(shown, <<j, m.cmd, m.err>>) ELSE shown
             /\ UNCHANGED <<stages, parallel>>
  BY DeliverFacts
<1>2. /\ inbox \in [Job -> Seq(Message)] /\ inbox[j] \in Seq(Message)
      /\ data \in [Job -> (SUBSET FileName) \cup {None}]
      /\ promise \in [Job -> {"none", "pending", "resolved", "rejected"}]
      /\ outcome \in {"pending", "resolved", "rejected"}
      /\ shown \in Seq(Job \X Nat \X BOOLEAN)
  BY DEF TypeOK
<1>3. /\ m = inbox[j][1] /\ 1 \in 1 .. Len(inbox[j]) /\ Len(inbox[j]) \in Nat
      /\ inbox'[j] \in Seq(Message) /\ Len(inbox'[j]) = Len(inbox[j]) - 1
      /\ \A i \in 1 .. Len(inbox[j]) - 1 :
             inbox'[j][i] = inbox[j][i + 1] /\ i + 1 \in 1 .. Len(inbox[j])
  BY <1>1, <1>2, TakenFacts
<1>4. /\ inbox' \in [Job -> Seq(Message)]
      /\ \A k \in Job \ {j} : inbox'[k] = inbox[k]
  BY <1>1, <1>2, <1>3
<1>5. /\ m.type \in {"feedback", "err", "res"}
      /\ m.type = "feedback" => m.cmd \in Nat /\ m.err \in BOOLEAN
      /\ m.type = "res" => m.files \in SUBSET FileName
  BY MessageFacts
<1>6. /\ data' \in [Job -> (SUBSET FileName) \cup {None}]
      /\ \A k \in Job \ {j} : data'[k] = data[k]
      /\ data'[j] = IF data[j] = None /\ m.type = "res" THEN m.files ELSE data[j]
  BY <1>1, <1>2, <1>5
<1>7. /\ shown' \in Seq(Job \X Nat \X BOOLEAN) /\ Range(shown) \subseteq Range(shown')
      /\ m.type = "feedback" /\ ~CutOff => <<j, m.cmd, m.err>> \in Range(shown')
  <2>1. CASE m.type = "feedback" /\ ~CutOff
    <3> DEFINE e == <<j, m.cmd, m.err>>
    <3>1. e \in Job \X Nat \X BOOLEAN
      BY <1>5, <2>1
    <3>2. shown' = Append(shown, e)
      BY <1>1, <2>1
    <3> HIDE DEF e
    <3>3. /\ shown' \in Seq(Job \X Nat \X BOOLEAN) /\ e \in Range(shown')
          /\ Range(shown) \subseteq Range(shown')
      BY <1>2, <3>1, <3>2, ShownFacts
    <3> QED BY <3>3 DEF e
  <2>2. CASE ~(m.type = "feedback" /\ ~CutOff)
    BY <1>1, <1>2, <2>2
  <2> QED BY <2>1, <2>2
<1>8. outcome' \in {"pending", "resolved", "rejected"}
  BY <1>1, <1>2 DEF Overall
<1>9. TypeOK'
  BY <1>1, <1>4, <1>6, <1>7, <1>8 DEF TypeOK
<1>10. \A k \in Job : CommandsOf(k)' = CommandsOf(k)
  BY <1>1 DEF CommandsOf
<1>11. worker'[j] = worker[j] /\ promise'[j] = p[j]
  BY <1>1
<1>12. MessageOK(j, 1)
  BY <1>3 DEF InboxOK
<1>13. JobOK(j)'
  <2>1. JobOK(j) /\ promise[j] # "none"
    BY <1>1 DEF JobOK
  <2>2. promise'[j] # "none"
    BY <1>1, <1>11, <2>1 DEF Settled
  <2>3. promise'[j] = "rejected" => promise[j] = "rejected" \/ m.type = "err" \/ Printed(m)
    BY <1>1, <1>11 DEF Settled, Rejects, Printed
  <2>4. promise'[j] = "resolved" => promise[j] = "resolved" \/ m.type = "res"
    BY <1>1, <1>11 DEF Settled
  <2>5. promise'[j] = "rejected" => worker'[j].pc \in {"failed", "closed"}
    BY <1>3, <1>11, <1>12, <2>1, <2>3 DEF MessageOK, JobOK
  <2>6. m.type = "res" => m.files \in Files(j)
    BY <1>3, <1>12 DEF MessageOK
  <2>7. data'[j] \in Files(j) \cup {None}
    BY <1>6, <2>1, <2>6 DEF JobOK
  <2>8. promise'[j] = "resolved" => data'[j] \in Files(j)
    BY <1>6, <2>1, <2>4, <2>6 DEF JobOK
  <2> QED BY <1>10, <1>11, <2>1, <2>2, <2>5, <2>7, <2>8 DEF JobOK
<1>14. ASSUME NEW k \in Job \ {j} PROVE JobOK(k)'
  <2>1. JobOK(k) /\ inbox'[k] = inbox[k] /\ data'[k] = data[k] /\ p[k] = promise[k]
    BY <1>1, <1>4, <1>6
  <2>2. CASE promise'[k] = p[k] /\ worker'[k] = worker[k]
    BY <1>10, <2>1, <2>2 DEF JobOK
  <2>3. CASE promise'[k] = "pending" /\ worker'[k] = NewWorker
    BY <2>1, <2>3 DEF JobOK, NewWorker
  <2> QED BY <1>1, <2>2, <2>3
<1>15. ASSUME NEW i \in 1 .. Len(inbox'[j]) PROVE MessageOK(j, i)'
  <2>1. i \in 1 .. Len(inbox[j]) - 1 /\ inbox'[j][i] = inbox[j][i + 1] /\ i + 1 \in 1 .. Len(inbox[j])
    BY <1>3
  <2>2. MessageOK(j, i + 1)
    BY <2>1 DEF InboxOK
  <2>3. ASSUME inbox[j][i + 1].type = "err", worker[j].pc = "failed"
        PROVE  outcome' = "rejected" \/ Explained(j)' \/ \E k \in 1 .. i - 1 : Printed(inbox'[j][k])
    <3>1. CASE outcome = "rejected"
      BY <1>1, <3>1
    <3>2. CASE Explained(j)
      BY <1>7, <1>11, <3>2 DEF Explained
    <3>3. CASE \E k \in 1 .. (i + 1) - 1 : Printed(inbox[j][k])
      <4>1. PICK k \in 1 .. (i + 1) - 1 : Printed(inbox[j][k])
        BY <3>3
      <4>2. CASE k = 1
        <5>1. Printed(m) /\ m.cmd = worker[j].cmd /\ m.type = "feedback" /\ m.err = TRUE
          BY <1>3, <1>5, <1>12, <4>1, <4>2 DEF MessageOK, Printed
        <5>2. CASE CutOff
          BY <1>1, <5>2 DEF CutOff
        <5>3. CASE ~CutOff
          BY <1>7, <1>11, <5>1, <5>3 DEF Explained
        <5> QED BY <5>2, <5>3
      <4>3. CASE k # 1
        <5> DEFINE l == k - 1
        <5>1. l \in 1 .. i - 1 /\ l + 1 = k /\ l \in 1 .. Len(inbox[j]) - 1
          <6>1. Len(inbox[j]) \in Nat /\ i \in 1 .. Len(inbox[j]) - 1
            BY <1>3, <2>1
          <6> DEFINE n == Len(inbox[j])
          <6> HIDE DEF n
          <6>2. n \in Nat /\ i \in 1 .. n - 1 /\ k \in 1 .. (i + 1) - 1 /\ k # 1
            BY <4>1, <4>3, <6>1 DEF n
          <6>3. k - 1 \in 1 .. i - 1 /\ (k - 1) + 1 = k /\ k - 1 \in 1 .. n - 1
            BY ONLY <6>2
          <6> QED BY <6>3 DEF n
        <5> HIDE DEF l
        <5>2. inbox'[j][l] = inbox[j][k]
          BY <1>3, <5>1
        <5> QED BY <4>1, <5>1, <5>2
      <4> QED BY <4>2, <4>3
    <3> QED BY <2>2, <2>3, <3>1, <3>2, <3>3 DEF MessageOK
  <2> QED BY <1>11, <2>1, <2>2, <2>3 DEF MessageOK
<1>16. InboxOK(j)'
  BY <1>15 DEF InboxOK
<1>17. ASSUME NEW k \in Job \ {j} PROVE InboxOK(k)'
  <2>1. InboxOK(k) /\ JobOK(k) /\ inbox'[k] = inbox[k] /\ p[k] = promise[k]
    BY <1>1, <1>4
  <2>2. CASE worker'[k] = worker[k]
    <3> SUFFICES ASSUME NEW i \in 1 .. Len(inbox'[k]) PROVE MessageOK(k, i)'
      BY DEF InboxOK
    <3>1. MessageOK(k, i)
      BY <2>1 DEF InboxOK
    <3>2. outcome = "rejected" => outcome' = "rejected"
      BY <1>1
    <3>3. Explained(k) => Explained(k)'
      BY <1>7, <2>2 DEF Explained
    <3> QED BY <2>1, <2>2, <3>1, <3>2, <3>3 DEF MessageOK
  <2>3. CASE promise[k] = "none"
    <3>1. inbox'[k] = <<>>
      BY <2>1, <2>3 DEF JobOK
    <3> QED BY <3>1 DEF InboxOK
  <2> QED BY <1>1, <2>2, <2>3
<1>18. (outcome = "pending" => \A k \in Job : promise[k] # "rejected")'
  BY <1>1 DEF Overall
<1>19. FailureIsExplained'
  <2> SUFFICES ASSUME outcome' = "rejected"
               PROVE  \E k \in Job :
                        /\ promise'[k] = "rejected"
                        /\ worker'[k].pc = "failed" =>
                               <<k, worker'[k].cmd, TRUE>> \in Range(shown')
    BY DEF FailureIsExplained
  <2>1. CASE outcome = "rejected"
    <3>1. PICK k \in Job :
              /\ promise[k] = "rejected"
              /\ worker[k].pc = "failed" => <<k, worker[k].cmd, TRUE>> \in Range(shown)
      BY <2>1 DEF FailureIsExplained
    <3>2. p[k] = "rejected"
      <4>1. CASE k = j
        <5>1. promise[j] # "pending" => Settled(promise[j], m) = promise[j]
          BY DEF Settled
        <5>2. p[j] = promise[j] \/ p[j] = Settled(promise[j], m)
          BY <1>1
        <5>3. promise[j] = "rejected"
          BY <3>1, <4>1
        <5> QED BY <4>1, <5>1, <5>2, <5>3
      <4>2. CASE k # j
        <5>1. p[k] = promise[k]
          BY <1>1, <4>2
        <5> QED BY <3>1, <5>1
      <4> QED BY <4>1, <4>2
    <3>3. promise'[k] = "rejected" /\ worker'[k] = worker[k]
      BY <1>1, <3>2
    <3> QED BY <1>7, <3>1, <3>3
  <2>2. CASE outcome # "rejected"
    <3>1. outcome = "pending" /\ Overall(p) = "rejected" /\ ~CutOff
      BY <1>1, <2>2 DEF CutOff
    <3>2. PICK k \in Job : p[k] = "rejected"
      BY <3>1 DEF Overall
    <3>3. k = j /\ promise[j] # "rejected"
      BY <1>1, <3>1, <3>2
    <3>4. m.type = "err" \/ Printed(m)
      BY <1>1, <3>1, <3>2, <3>3 DEF Settled, Rejects, Printed
    <3>5. ASSUME worker[j].pc = "failed" PROVE <<j, worker[j].cmd, TRUE>> \in Range(shown')
      <4>1. CASE Printed(m)
        <5>1. m.cmd = worker[j].cmd /\ m.type = "feedback" /\ m.err = TRUE
          BY <1>3, <1>5, <1>12, <4>1 DEF MessageOK, Printed
        <5> QED BY <1>7, <3>1, <5>1
      <4>2. CASE m.type = "err"
        <5>1. Explained(j)
          BY <1>3, <1>12, <3>1, <3>5, <4>2 DEF MessageOK
        <5> QED BY <1>7, <5>1 DEF Explained
      <4> QED BY <3>4, <4>1, <4>2
    <3> QED BY <1>11, <3>2, <3>3, <3>5
  <2> QED BY <2>1, <2>2
<1> QED BY <1>9, <1>13, <1>14, <1>16, <1>17, <1>18, <1>19

LEMMA Inductive == Spec => []IInv
<1>1. IInv /\ [Next]_vars => IInv'
  <2> SUFFICES ASSUME IInv, [Next]_vars PROVE IInv'
    OBVIOUS
  <2>1. CASE UNCHANGED vars
    BY <2>1 DEF vars, setting, IInv, TypeOK, JobOK, InboxOK, MessageOK, CommandsOf, Explained,
                FailureIsExplained
  <2>2. CASE Next
    BY <2>2, BeginKeeps, WorkerStepKeeps, DeliverKeeps DEF Next
  <2> QED BY <2>1, <2>2
<1> QED BY <1>1, InitHolds, PTL DEF Spec

-----------------------------------------------------------------------------------
\* When the command of a worker made a compilation fail, what it printed is on the
\* terminal, whatever else goes wrong and whatever the other worker posts.
THEOREM FailuresExplained == Spec => []FailureIsExplained
<1>1. IInv => FailureIsExplained
  BY DEF IInv
<1> QED BY <1>1, Inductive, PTL

\* A message that is taken settles the promise of all as CompilePromise says, or
\* leaves it as it is.
LEMMA DeliverRefines ==
    ASSUME IInv, NEW j \in Job, Deliver(j)
    PROVE  Promise!Resolve \/ Promise!Fail \/ UNCHANGED <<outcome, results>>
<1>1. PICK p \in [Job -> {"none", "pending", "resolved", "rejected"}] :
             /\ \A k \in Job : promise'[k] = "pending" \/ promise'[k] = p[k]
             /\ \A k \in Job : p[k] = "resolved" => promise'[k] = "resolved"
             /\ outcome' = IF outcome = "pending" THEN Overall(p) ELSE outcome
             /\ results' = IF outcome = "pending" /\ outcome' = "resolved" THEN data' ELSE results
  BY DeliverFacts
<1>2. IInv'
  BY DeliverKeeps
<1>3. CASE outcome = "pending" /\ outcome' = "resolved"
  <2>1. ASSUME NEW k \in Job PROVE data'[k] \in Files(k)
    <3>1. promise'[k] = "resolved"
      BY <1>1, <1>3 DEF Overall
    <3> QED BY <1>2, <3>1 DEF IInv, JobOK
  <2>2. data' \in [Job -> UNION {Files(k) : k \in Job}]
    BY <1>2, <2>1 DEF IInv, TypeOK
  <2> QED BY <1>1, <1>3, <2>1, <2>2 DEF Promise!Resolve
<1>4. CASE outcome = "pending" /\ outcome' = "rejected"
  BY <1>1, <1>4 DEF Promise!Fail
<1>5. CASE ~(outcome = "pending" /\ outcome' \in {"resolved", "rejected"})
  BY <1>1, <1>2, <1>5 DEF Overall
<1> QED BY <1>3, <1>4, <1>5

\* runCompilers implements its promise: it settles once, with the results of all
\* the jobs, each in its place, or with a failure.
THEOREM PromiseKept == Spec => KeepsPromise
<1>1. Init => Promise!Init
  BY DEF Init, Promise!Init
<1>2. IInv /\ [Next]_vars => [Promise!Resolve \/ Promise!Fail]_<<outcome, results>>
  <2> SUFFICES ASSUME IInv, [Next]_vars
               PROVE  Promise!Resolve \/ Promise!Fail \/ UNCHANGED <<outcome, results>>
    OBVIOUS
  <2>1. CASE UNCHANGED vars
    BY <2>1 DEF vars
  <2>2. CASE Begin
    BY <2>2 DEF Begin
  <2>3. ASSUME NEW j \in Job, WorkerStep(j) PROVE UNCHANGED <<outcome, results>>
    BY <2>3 DEF WorkerStep, Loaded, NoKernels, CommandEnds, CommandFails, Throws, Finish, Dies, Page
  <2> QED BY <2>1, <2>2, <2>3, DeliverRefines DEF Next
<1> QED BY <1>1, <1>2, Inductive, PTL DEF Spec, KeepsPromise, Promise!Spec
===================================================================================
