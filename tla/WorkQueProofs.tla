---------------------------- MODULE WorkQueProofs ----------------------------
(***************************************************************************)
(* Lemmas about the queue operations, for any sets of nodes and capacity.  *)
(***************************************************************************)
EXTENDS WorkQue, TLAPS

\* An inserted node joins the queue at the tail; a refused one changes nothing.
LEMMA QueInsertQueue ==
  ASSUME QueTypeOK, QueueShape, NEW n \in Node, n \notin Queued,
         next[n] = NULL, NEW r, QueInsert(n, r)
  PROVE  /\ QueTypeOK'
         /\ QueueShape'
         /\ r \in {0, -1}
         /\ r = 0  => Queued' = Queued \cup {n} /\ tasks' = Append(tasks, n)
         /\ r = -1 => UNCHANGED queVars
<1> USE NullAssumption, CapacityAssumption DEF QueTypeOK
<1> DEFINE L == Len(tasks)
<1>0. L \in Nat /\ queSize = L /\ DOMAIN tasks = 1 .. L
  BY DEF QueueShape
<1>1. CASE InsertRefused /\ r = -1
  BY <1>1 DEF InsertRefused, queVars, QueueShape
<1>2. CASE InsertFirst(n) /\ r = 0
  <2>1. tasks = <<>> /\ tasks' = <<n>> /\ L = 0
    BY <1>0, <1>2 DEF InsertFirst
  <2>2. Queued' = Queued \cup {n}
    BY <2>1 DEF Queued
  <2>3. QueTypeOK'
    BY <1>2, <2>1, <1>0 DEF InsertFirst
  <2>4. QueueShape'
    BY <1>2, <2>1, <1>0 DEF InsertFirst, QueueShape
  <2> QED
    BY <1>2, <2>2, <2>3, <2>4 DEF InsertFirst
<1>3. CASE InsertLast(n) /\ r = 0
  <2>1. /\ tasks # <<>> /\ L > 0
        /\ tasks' = Append(tasks, n)
        /\ Len(tasks') = L + 1
        /\ \A i \in 1 .. L : tasks'[i] = tasks[i]
        /\ tasks'[L + 1] = n
        /\ tasks' \in Seq(Node)
    BY <1>0, <1>3 DEF InsertLast
  <2>2. queTail = tasks[L] /\ queTail \in Node /\ n # queTail
    BY <2>1, <1>0 DEF QueueShape, Queued
  <2>3. next' = [next EXCEPT ![queTail] = n] /\ queTail' = n /\ queHead' = queHead
        /\ queSize' = queSize + 1
    BY <1>3 DEF InsertLast
  <2>4. QueTypeOK'
    BY <2>1, <2>2, <2>3, <1>0
  <2>5. Queued' = Queued \cup {n}
    BY <2>1, <1>0 DEF Queued
  <2>6. \A i \in 1 .. L : tasks[i] # n
    BY <1>0 DEF Queued
  <2>7. QueueShape'
    <3>1. \A i \in 1 .. L : next'[tasks'[i]] = tasks'[i + 1]
      <4> TAKE i \in 1 .. L
      <4>1. CASE i = L
        BY <4>1, <2>1, <2>2, <2>3
      <4>2. CASE i # L
        <5>1. i \in 1 .. L - 1 /\ i + 1 \in 1 .. L /\ L \in 1 .. L
          BY <4>2, <2>1, <1>0
        <5>2. tasks[i] # queTail
          BY <5>1, <2>2, <4>2, <1>0 DEF QueueShape
        <5>3. next[tasks[i]] = tasks[i + 1] /\ tasks[i] \in Node
          BY <5>1, <1>0 DEF QueueShape
        <5> QED
          BY <5>1, <5>2, <5>3, <2>1, <2>3
      <4> QED BY <4>1, <4>2
    <3>2. \A i, j \in 1 .. L + 1 : i # j => tasks'[i] # tasks'[j]
      BY <2>1, <2>6, <1>0 DEF QueueShape
    <3>3. next'[n] = NULL
      BY <2>2, <2>3
    <3>4. queHead' = tasks'[1]
      BY <2>1, <2>3, <1>0 DEF QueueShape
    <3> QED
      BY <3>1, <3>2, <3>3, <3>4, <2>1, <2>3, <1>0 DEF QueueShape
  <2> QED
    BY <1>3, <2>1, <2>4, <2>5, <2>7
<1> QED
  BY <1>1, <1>2, <1>3 DEF QueInsert

\* queGet hands out the oldest task and the queue keeps all the others.
LEMMA QueGetQueue ==
  ASSUME QueTypeOK, QueueShape, QueGetHead
  PROVE  /\ QueTypeOK'
         /\ QueueShape'
         /\ tasks # <<>>
         /\ queHead = Head(tasks)
         /\ queHead \in Queued
         /\ Queued' = Queued \ {queHead}
<1> USE NullAssumption DEF QueTypeOK
<1> DEFINE L == Len(tasks)
<1>0. /\ L \in Nat /\ L > 0 /\ queSize = L /\ DOMAIN tasks = 1 .. L
      /\ tasks # <<>>
      /\ queHead = tasks[1] /\ queHead = Head(tasks) /\ queHead \in Node
  BY DEF QueueShape, QueGetHead
<1>1. /\ tasks' = Tail(tasks)
      /\ Len(tasks') = L - 1
      /\ \A i \in 1 .. L - 1 : tasks'[i] = tasks[i + 1]
      /\ tasks' \in Seq(Node)
      /\ next' = next
      /\ queSize' = queSize - 1
      /\ queHead' = next[queHead]
      /\ queTail' = IF queHead' = NULL THEN NULL ELSE queTail
  BY <1>0 DEF QueGetHead
<1>2. QueTypeOK'
  BY <1>0, <1>1
<1>3. Queued' = Queued \ {queHead}
  <2>1. DOMAIN tasks' = 1 .. L - 1
    BY <1>0, <1>1
  <2>2. Queued' = {tasks[i + 1] : i \in 1 .. L - 1}
    BY <2>1, <1>1, <1>0 DEF Queued
  <2>3. \A i \in 2 .. L : tasks[i] # queHead
    BY <1>0 DEF QueueShape
  <2>4. \A i \in 2 .. L : i - 1 \in 1 .. L - 1 /\ (i - 1) + 1 = i
    BY <1>0
  <2>5. ASSUME NEW x \in Queued' PROVE x \in Queued \ {queHead}
    <3>1. PICK i \in 1 .. L - 1 : x = tasks[i + 1]
      BY <2>2
    <3> QED
      BY <3>1, <2>3, <1>0 DEF Queued
  <2>6. ASSUME NEW x \in Queued \ {queHead} PROVE x \in Queued'
    <3>1. PICK i \in 1 .. L : x = tasks[i]
      BY <1>0 DEF Queued
    <3>2. i \in 2 .. L
      BY <3>1, <1>0
    <3> QED
      BY <3>1, <3>2, <2>4, <2>2
  <2> QED BY <2>5, <2>6
<1>4. QueueShape'
  <2>1. CASE L = 1
    <3>1. queHead' = NULL /\ queTail' = NULL /\ tasks' = <<>>
      BY <2>1, <1>0, <1>1 DEF QueueShape
    <3> QED
      BY <3>1, <2>1, <1>0, <1>1 DEF QueueShape
  <2>2. CASE L > 1
    <3>1. queHead' = tasks[2] /\ tasks[2] \in Node
      BY <2>2, <1>0, <1>1 DEF QueueShape
    <3>2. queTail' = tasks[L] /\ next[tasks[L]] = NULL
      BY <3>1, <1>1, <1>0 DEF QueueShape
    <3>3. tasks' # <<>> /\ tasks'[1] = tasks[2] /\ tasks'[L - 1] = tasks[L]
      <4>1. /\ 1 \in 1 .. L - 1 /\ 1 + 1 = 2
            /\ L - 1 \in 1 .. L - 1 /\ (L - 1) + 1 = L
        BY <2>2, <1>0
      <4>2. tasks' # <<>>
        <5>1. Len(tasks') > 0
          BY <2>2, <1>1, <1>0
        <5> QED
          BY <5>1
      <4>3. tasks'[1] = tasks[1 + 1]
        BY <4>1, <1>1
      <4>4. tasks'[L - 1] = tasks[(L - 1) + 1]
        BY <4>1, <1>1
      <4> QED
        BY <4>1, <4>2, <4>3, <4>4
    <3>4. \A i \in 1 .. L - 2 : next'[tasks'[i]] = tasks'[i + 1]
      <4> TAKE i \in 1 .. L - 2
      <4>1. i \in 1 .. L - 1 /\ i + 1 \in 1 .. L - 1 /\ (i + 1) + 1 = i + 2
        BY <1>0
      <4>2. next[tasks[i + 1]] = tasks[(i + 1) + 1]
        BY <4>1, <1>0 DEF QueueShape
      <4> QED
        BY <4>1, <4>2, <1>1
    <3>5. \A i, j \in 1 .. L - 1 : i # j => tasks'[i] # tasks'[j]
      BY <1>1, <1>0 DEF QueueShape
    <3> QED
      BY <3>1, <3>2, <3>3, <3>4, <3>5, <1>0, <1>1 DEF QueueShape
  <2> QED BY <2>1, <2>2, <1>0
<1>5. queHead \in Queued
  BY <1>0 DEF Queued
<1> QED
  BY <1>0, <1>2, <1>3, <1>4, <1>5
=============================================================================
