----------------------------- MODULE LogProofs -----------------------------
(***************************************************************************)
(* Proofs about Log for every size of the buffer, every length of the      *)
(* pieces and every number of threads.                                     *)
(***************************************************************************)
EXTENDS Log, TLAPS

Cells == {"c", "n", "0", "?"}

\* While a message is composed there is room for the newline and the NUL, and what
\* lies before the position is text.
TextSoFar ==
    \A t \in Threads : log_pc[t] = "compose" =>
        /\ pos_[t] <= BUF_SIZE - 2
        /\ \A i \in Memory : i < pos_[t] => buf_[t][i] = "c"

\* A thread is past pthread_once() only when openLogFile() has run.
OnceOrdered ==
    /\ once = "done" => g_log_fd # "none"
    /\ \A t \in Threads :
          log_pc[t] \in {"lock", "write", "write_stderr", "unlock"} => once = "done"

IInv == TypeOK /\ TextSoFar /\ BufferBounds /\ LinesTerminated /\ OnceOrdered

-----------------------------------------------------------------------------
\* What snprintf() and the cap on pos_ do together, at any position that leaves room
\* for newline and NUL: the text grows, the buffer is not left, the room stays.
LEMMA PieceFits ==
    ASSUME NEW b \in [Memory -> Cells], NEW p \in Nat, p <= BUF_SIZE - 2, NEW n \in Nat,
           \A i \in Memory : i < p => b[i] = "c"
    PROVE  LET r == snprintf(b, p, BUF_SIZE - 1 - p, n)
               q == Cap(p + n)
           IN  /\ r \in [Memory -> Cells]
               /\ q \in Nat /\ q <= BUF_SIZE - 2 /\ q >= p
               /\ \A i \in Memory : i >= BUF_SIZE => r[i] = b[i]
               /\ \A i \in Memory : i < q => r[i] = "c"
<1> DEFINE r == snprintf(b, p, BUF_SIZE - 1 - p, n)
           q == Cap(p + n)
           end == p + Smaller(n, BUF_SIZE - 1 - p - 1)
<1>1. end \in Nat /\ end <= BUF_SIZE - 2
  BY LogAssumption DEF Smaller
<1>2. q = end
  BY LogAssumption DEF Smaller, Cap
<1>3. r = [i \in Memory |-> IF i \in p .. (end - 1) THEN "c"
                            ELSE IF i = end THEN "0" ELSE b[i]]
  BY DEF snprintf
<1>4. r \in [Memory -> Cells]
  BY <1>3 DEF Cells
<1>5. \A i \in Memory : i >= BUF_SIZE => r[i] = b[i]
  BY <1>1, <1>3, LogAssumption DEF Memory
<1>6. \A i \in Memory : i < end => r[i] = "c"
  BY <1>1, <1>3, LogAssumption DEF Memory
<1>7. q >= p
  BY <1>2, LogAssumption DEF Smaller
<1> QED BY <1>1, <1>2, <1>4, <1>5, <1>6, <1>7

-----------------------------------------------------------------------------
\* Before the first message.
LEMMA InitIInv == LogInit => IInv
<1> SUFFICES ASSUME LogInit PROVE IInv
  OBVIOUS
<1> USE LogAssumption DEF LogInit
<1>1. TypeOK
  <2>1. buf_ \in [Threads -> [Memory -> {"c", "n", "0", "?"}]]
    OBVIOUS
  <2> QED BY <2>1 DEF TypeOK
<1>2. TextSoFar /\ LinesTerminated /\ OnceOrdered
  BY DEF TextSoFar, LinesTerminated, OnceOrdered, Composed
<1>3. BufferBounds
  BY DEF BufferBounds
<1> QED BY <1>1, <1>2, <1>3 DEF IInv

-----------------------------------------------------------------------------
(* A step of one thread.  What is said of buffers and positions is said of *)
(* each thread apart.                                                      *)

\* The part of the invariant that speaks of one message.
Message(pc, b, p) ==
    /\ b \in [Memory -> Cells] /\ p \in 0 .. (BUF_SIZE - 1)
    /\ \A i \in Memory : i >= BUF_SIZE => b[i] = "?"
    /\ pc = "compose" => p <= BUF_SIZE - 2 /\ \A i \in Memory : i < p => b[i] = "c"
    /\ pc \in Composed =>
          /\ p > 0 /\ b[p - 1] = "n"
          /\ \A i \in Memory : i < p - 1 => b[i] = "c"

\* The invariant, message by message.
LEMMA ByMessage ==
    IInv <=> /\ TypeOK /\ OnceOrdered
             /\ \A t \in Threads : Message(log_pc[t], buf_[t], pos_[t])
BY DEF IInv, TypeOK, TextSoFar, BufferBounds, LinesTerminated, Message, Cells

\* The constructor of LogMessage leaves a sound message.
LEMMA BeginMessage ==
    ASSUME NEW n \in Nat
    PROVE  Message("compose", snprintf([i \in Memory |-> "?"], 0, BUF_SIZE - 1, n), Cap(n))
<1> DEFINE b == [i \in Memory |-> "?"]
<1>1. b \in [Memory -> Cells] /\ \A i \in Memory : i >= BUF_SIZE => b[i] = "?"
  BY DEF Cells
<1>2. \A i \in Memory : i < 0 => b[i] = "c"
  BY LogAssumption DEF Memory
<1> HIDE DEF b
<1>3. LET r == snprintf(b, 0, BUF_SIZE - 1 - 0, n)
          q == Cap(0 + n)
      IN  /\ r \in [Memory -> Cells]
          /\ q \in Nat /\ q <= BUF_SIZE - 2 /\ q >= 0
          /\ \A i \in Memory : i >= BUF_SIZE => r[i] = b[i]
          /\ \A i \in Memory : i < q => r[i] = "c"
  BY <1>1, <1>2, PieceFits, LogAssumption
<1>4. BUF_SIZE - 1 - 0 = BUF_SIZE - 1 /\ 0 + n = n
  BY LogAssumption
<1>5. Message("compose", snprintf(b, 0, BUF_SIZE - 1, n), Cap(n))
  BY <1>1, <1>3, <1>4, LogAssumption DEF Message, Composed
<1> QED BY <1>5 DEF b

\* operator<< of strings and numbers keeps it sound.
LEMMA AppendMessage ==
    ASSUME NEW b, NEW p, Message("compose", b, p), NEW n \in Nat
    PROVE  Message("compose", snprintf(b, p, BUF_SIZE - 1 - p, n),
                   IF n > 0 THEN Cap(p + n) ELSE p)
<1>1. /\ b \in [Memory -> Cells] /\ p \in Nat /\ p <= BUF_SIZE - 2
      /\ \A i \in Memory : i < p => b[i] = "c"
      /\ \A i \in Memory : i >= BUF_SIZE => b[i] = "?"
  BY LogAssumption DEF Message
<1>2. LET r == snprintf(b, p, BUF_SIZE - 1 - p, n)
          q == Cap(p + n)
      IN  /\ r \in [Memory -> Cells]
          /\ q \in Nat /\ q <= BUF_SIZE - 2 /\ q >= p
          /\ \A i \in Memory : i >= BUF_SIZE => r[i] = b[i]
          /\ \A i \in Memory : i < q => r[i] = "c"
  BY <1>1, PieceFits
<1>3. n = 0 => Cap(p + n) = p
  BY <1>1, LogAssumption DEF Cap
<1>4. Message("compose", snprintf(b, p, BUF_SIZE - 1 - p, n), Cap(p + n))
  BY <1>1, <1>2, LogAssumption DEF Message, Composed
<1>5. (IF n > 0 THEN Cap(p + n) ELSE p) = Cap(p + n)
  BY <1>3
<1> QED BY <1>4, <1>5

\* So does operator<< of a character.
LEMMA AppendCharMessage ==
    ASSUME NEW b, NEW p, Message("compose", b, p), p < BUF_SIZE - 2
    PROVE  Message("compose", [b EXCEPT ![p] = "c"], p + 1)
BY LogAssumption DEF Message, Composed, Memory, Cells

\* The destructor finds room for newline and NUL.
LEMMA TerminateMessage ==
    ASSUME NEW b, NEW p, Message("compose", b, p)
    PROVE  LET q == IF p < BUF_SIZE - 1 THEN p + 1 ELSE p
           IN  Message("once", [i \in Memory |->
                   IF i = q THEN "0" ELSE IF i = q - 1 /\ q # p THEN "n" ELSE b[i]], q)
<1> DEFINE q == p + 1
           r == [i \in Memory |->
                   IF i = q THEN "0" ELSE IF i = q - 1 /\ q # p THEN "n" ELSE b[i]]
<1>1. /\ p \in Nat /\ p <= BUF_SIZE - 2 /\ BUF_SIZE \in Nat
      /\ b \in [Memory -> Cells]
      /\ \A i \in Memory : i < p => b[i] = "c"
      /\ \A i \in Memory : i >= BUF_SIZE => b[i] = "?"
  BY LogAssumption DEF Message
<1>2. (IF p < BUF_SIZE - 1 THEN p + 1 ELSE p) = q
  BY <1>1
<1>3. r \in [Memory -> Cells]
  BY <1>1 DEF Cells
<1>4. \A i \in Memory : i >= BUF_SIZE => r[i] = "?"
  BY <1>1 DEF Memory
<1>5. q > 0 /\ q - 1 \in Memory /\ r[q - 1] = "n"
  BY <1>1 DEF Memory
<1>6. \A i \in Memory : i < q - 1 => r[i] = "c"
  BY <1>1 DEF Memory
<1>7. q \in 0 .. (BUF_SIZE - 1)
  BY <1>1
<1>8. Message("once", r, q)
  BY <1>3, <1>4, <1>5, <1>6, <1>7 DEF Message, Composed
<1> QED BY <1>2, <1>8

\* A thread's step gives thread t a new message and leaves the others alone.
LEMMA OneMessage ==
    ASSUME IInv, NEW t \in Threads, NEW pc, NEW b, NEW p,
           log_pc' = [log_pc EXCEPT ![t] = pc],
           buf_' = [buf_ EXCEPT ![t] = b], pos_' = [pos_ EXCEPT ![t] = p],
           Message(pc, b, p)
    PROVE  /\ \A u \in Threads : Message(log_pc'[u], buf_'[u], pos_'[u])
           /\ buf_' \in [Threads -> [Memory -> {"c", "n", "0", "?"}]]
           /\ pos_' \in [Threads -> 0 .. (BUF_SIZE - 1)]
<1>1. TypeOK /\ \A u \in Threads : Message(log_pc[u], buf_[u], pos_[u])
  BY ByMessage
<1>2. \A u \in Threads : Message(log_pc'[u], buf_'[u], pos_'[u])
  BY <1>1 DEF TypeOK
<1>3. b \in [Memory -> {"c", "n", "0", "?"}] /\ p \in 0 .. (BUF_SIZE - 1)
  BY DEF Message, Cells
<1> QED BY <1>1, <1>2, <1>3 DEF TypeOK

\* Where a step changes no buffer, only its new place matters.
LEMMA SameMessage ==
    ASSUME IInv, NEW t \in Threads, NEW pc,
           log_pc' = [log_pc EXCEPT ![t] = pc], UNCHANGED <<buf_, pos_>>,
           log_pc[t] \in Composed, pc \in Composed
    PROVE  \A u \in Threads : Message(log_pc'[u], buf_'[u], pos_'[u])
<1>1. TypeOK /\ \A u \in Threads : Message(log_pc[u], buf_[u], pos_[u])
  BY ByMessage
<1>2. Message(pc, buf_[t], pos_[t])
  BY <1>1 DEF Message, Composed
<1> QED BY <1>1, <1>2 DEF TypeOK

\* ByMessage for the next state.
LEMMA ByMessageNext ==
    ASSUME TypeOK', OnceOrdered', \A u \in Threads : Message(log_pc'[u], buf_'[u], pos_'[u])
    PROVE  IInv'
BY DEF IInv, TypeOK, TextSoFar, BufferBounds, LinesTerminated, Message, Cells

\* Every step of a thread in the logger keeps the invariant.
LEMMA NextIInv == IInv /\ [LogNext]_logVars => IInv'
<1> SUFFICES ASSUME IInv, [LogNext]_logVars PROVE IInv'
  OBVIOUS
<1>0. TypeOK /\ OnceOrdered /\ \A u \in Threads : Message(log_pc[u], buf_[u], pos_[u])
  BY ByMessage
<1>1. ASSUME NEW t \in Threads, Begin(t) PROVE IInv'
  <2>1. PICK n \in Lengths :
           /\ buf_' = [buf_ EXCEPT ![t] = snprintf([i \in Memory |-> "?"], 0, BUF_SIZE - 1, n)]
           /\ pos_' = [pos_ EXCEPT ![t] = Cap(n)]
    BY <1>1 DEF Begin
  <2>2. n \in Nat
    BY <2>1, LogAssumption
  <2>3. Message("compose", snprintf([i \in Memory |-> "?"], 0, BUF_SIZE - 1, n), Cap(n))
    BY <2>2, BeginMessage
  <2>4. log_pc' = [log_pc EXCEPT ![t] = "compose"]
    BY <1>1 DEF Begin
  <2>5. /\ \A u \in Threads : Message(log_pc'[u], buf_'[u], pos_'[u])
        /\ buf_' \in [Threads -> [Memory -> {"c", "n", "0", "?"}]]
        /\ pos_' \in [Threads -> 0 .. (BUF_SIZE - 1)]
    BY <2>1, <2>3, <2>4, OneMessage
  <2>6. TypeOK'
    <3>1. lines' \in [Threads -> 0 .. MaxLines]
      BY <1>0, <1>1, LogAssumption DEF TypeOK, Begin
    <3> QED BY <1>0, <1>1, <2>4, <2>5, <3>1 DEF TypeOK, Begin, outVars
  <2>7. OnceOrdered'
    BY <1>0, <1>1 DEF OnceOrdered, Begin, TypeOK, outVars
  <2> QED BY <2>5, <2>6, <2>7, ByMessageNext
<1>2. ASSUME NEW t \in Threads, AppendPiece(t) PROVE IInv'
  <2>1. PICK n \in Lengths :
           /\ buf_' = [buf_ EXCEPT ![t] = snprintf(buf_[t], pos_[t], BUF_SIZE - 1 - pos_[t], n)]
           /\ pos_' = [pos_ EXCEPT ![t] = IF n > 0 THEN Cap(pos_[t] + n) ELSE pos_[t]]
    BY <1>2 DEF AppendPiece
  <2>2. n \in Nat /\ Message("compose", buf_[t], pos_[t])
    BY <1>0, <1>2, <2>1, LogAssumption DEF AppendPiece
  <2>3. Message("compose", snprintf(buf_[t], pos_[t], BUF_SIZE - 1 - pos_[t], n),
                IF n > 0 THEN Cap(pos_[t] + n) ELSE pos_[t])
    BY <2>2, AppendMessage
  <2>4. log_pc' = [log_pc EXCEPT ![t] = "compose"]
    BY <1>0, <1>2 DEF AppendPiece, TypeOK
  <2>5. /\ \A u \in Threads : Message(log_pc'[u], buf_'[u], pos_'[u])
        /\ buf_' \in [Threads -> [Memory -> {"c", "n", "0", "?"}]]
        /\ pos_' \in [Threads -> 0 .. (BUF_SIZE - 1)]
    BY <2>1, <2>3, <2>4, OneMessage
  <2>6. TypeOK'
    BY <1>0, <1>2, <2>5 DEF TypeOK, AppendPiece, outVars
  <2>7. OnceOrdered'
    BY <1>0, <1>2 DEF OnceOrdered, AppendPiece, outVars
  <2> QED BY <2>5, <2>6, <2>7, ByMessageNext
<1>3. ASSUME NEW t \in Threads, AppendChar(t) PROVE IInv'
  <2>1. Message("compose", [buf_[t] EXCEPT ![pos_[t]] = "c"], pos_[t] + 1)
    BY <1>0, <1>3, AppendCharMessage DEF AppendChar
  <2>2. buf_' = [buf_ EXCEPT ![t] = [buf_[t] EXCEPT ![pos_[t]] = "c"]]
    BY <1>0, <1>3 DEF AppendChar, TypeOK
  <2>3. log_pc' = [log_pc EXCEPT ![t] = "compose"] /\ pos_' = [pos_ EXCEPT ![t] = pos_[t] + 1]
    BY <1>0, <1>3 DEF AppendChar, TypeOK
  <2>5. /\ \A u \in Threads : Message(log_pc'[u], buf_'[u], pos_'[u])
        /\ buf_' \in [Threads -> [Memory -> {"c", "n", "0", "?"}]]
        /\ pos_' \in [Threads -> 0 .. (BUF_SIZE - 1)]
    BY <2>1, <2>2, <2>3, OneMessage
  <2>6. TypeOK'
    BY <1>0, <1>3, <2>5 DEF TypeOK, AppendChar, outVars
  <2>7. OnceOrdered'
    BY <1>0, <1>3 DEF OnceOrdered, AppendChar, outVars
  <2> QED BY <2>5, <2>6, <2>7, ByMessageNext
<1>4. ASSUME NEW t \in Threads, Terminate(t) PROVE IInv'
  <2> DEFINE q == IF pos_[t] < BUF_SIZE - 1 THEN pos_[t] + 1 ELSE pos_[t]
             r == [i \in Memory |->
                     IF i = q THEN "0" ELSE IF i = q - 1 /\ q # pos_[t] THEN "n" ELSE buf_[t][i]]
  <2>1. Message("compose", buf_[t], pos_[t])
    BY <1>0, <1>4 DEF Terminate
  <2>2. Message("once", r, q)
    BY <2>1, TerminateMessage
  <2>3. /\ buf_' = [buf_ EXCEPT ![t] = r] /\ pos_' = [pos_ EXCEPT ![t] = q]
        /\ log_pc' = [log_pc EXCEPT ![t] = "once"]
        /\ UNCHANGED <<lines, outVars>>
    BY <1>4 DEF Terminate
  <2> HIDE DEF q, r
  <2>5. /\ \A u \in Threads : Message(log_pc'[u], buf_'[u], pos_'[u])
        /\ buf_' \in [Threads -> [Memory -> {"c", "n", "0", "?"}]]
        /\ pos_' \in [Threads -> 0 .. (BUF_SIZE - 1)]
    BY <2>2, <2>3, OneMessage
  <2>6. TypeOK'
    BY <1>0, <2>3, <2>5 DEF TypeOK, outVars
  <2>7. OnceOrdered'
    BY <1>0, <2>3 DEF OnceOrdered, TypeOK, outVars
  <2> QED BY <2>5, <2>6, <2>7, ByMessageNext
<1>5. ASSUME NEW t \in Threads, OnceRuns(t) \/ openLogFile(t) \/ OnceDone(t) \/ Lock(t)
                                 \/ WriteLog(t) \/ WriteTerminal(t)
      PROVE  IInv'
  <2>1. PICK pc \in Composed : log_pc' = [log_pc EXCEPT ![t] = pc]
    BY <1>5 DEF OnceRuns, openLogFile, OnceDone, Lock, WriteLog, WriteTerminal, Composed
  <2>2. log_pc[t] \in Composed /\ UNCHANGED <<buf_, pos_, lines>>
    BY <1>5 DEF OnceRuns, openLogFile, OnceDone, Lock, WriteLog, WriteTerminal, Composed,
                outVars
  <2>3. \A u \in Threads : Message(log_pc'[u], buf_'[u], pos_'[u])
    BY <2>1, <2>2, SameMessage
  <2>4. TypeOK'
    <3>1. log_pc' \in [Threads -> {"idle", "compose", "once", "open", "lock", "write",
                                   "write_stderr", "unlock"}]
      BY <1>0, <2>1 DEF TypeOK, Composed
    <3>2. once' \in {"never", "running", "done"} /\ g_log_fd' \in {"none", "file", "stderr"}
      BY <1>0, <1>5 DEF TypeOK, OnceRuns, openLogFile, OnceDone, Lock, WriteLog,
                        WriteTerminal, outVars
    <3>3. g_log_mutex' \in Threads \cup {Nobody}
      BY <1>0, <1>5 DEF TypeOK, OnceRuns, openLogFile, OnceDone, Lock, WriteLog,
                        WriteTerminal, outVars
    <3> QED BY <1>0, <2>2, <3>1, <3>2, <3>3 DEF TypeOK
  <2>5. OnceOrdered'
    <3>1. CASE OnceRuns(t)
      BY <1>0, <3>1 DEF OnceOrdered, TypeOK, OnceRuns
    <3>2. CASE openLogFile(t)
      BY <1>0, <3>2 DEF OnceOrdered, TypeOK, openLogFile
    <3>3. CASE OnceDone(t)
      BY <1>0, <3>3 DEF OnceOrdered, TypeOK, OnceDone, OncePassed, outVars
    <3>4. CASE Lock(t) \/ WriteLog(t) \/ WriteTerminal(t)
      BY <1>0, <3>4 DEF OnceOrdered, TypeOK, Lock, WriteLog, WriteTerminal
    <3> QED BY <1>5, <3>1, <3>2, <3>3, <3>4
  <2> QED BY <2>3, <2>4, <2>5, ByMessageNext
<1>6. ASSUME NEW t \in Threads, Unlock(t) PROVE IInv'
  <2> DEFINE b == [i \in Memory |-> "?"]
  <2>1. Message("idle", b, 0)
    BY LogAssumption DEF Message, Composed, Cells
  <2>2. /\ buf_' = [buf_ EXCEPT ![t] = b] /\ pos_' = [pos_ EXCEPT ![t] = 0]
        /\ log_pc' = [log_pc EXCEPT ![t] = "idle"]
        /\ g_log_mutex' = Nobody /\ UNCHANGED <<lines, once, g_log_fd, file, terminal>>
    BY <1>6 DEF Unlock
  <2> HIDE DEF b
  <2>5. /\ \A u \in Threads : Message(log_pc'[u], buf_'[u], pos_'[u])
        /\ buf_' \in [Threads -> [Memory -> {"c", "n", "0", "?"}]]
        /\ pos_' \in [Threads -> 0 .. (BUF_SIZE - 1)]
    BY <2>1, <2>2, OneMessage
  <2>6. TypeOK'
    BY <1>0, <2>2, <2>5 DEF TypeOK
  <2>7. OnceOrdered'
    BY <1>0, <2>2 DEF OnceOrdered, TypeOK
  <2> QED BY <2>5, <2>6, <2>7, ByMessageNext
<1>7. CASE UNCHANGED logVars
  BY <1>7 DEF logVars, IInv, TypeOK, TextSoFar, BufferBounds, LinesTerminated, OnceOrdered
<1> QED
  BY <1>1, <1>2, <1>3, <1>4, <1>5, <1>6, <1>7 DEF LogNext, ThreadStep, Elsewhere

-----------------------------------------------------------------------------
\* The invariant holds in every reachable state of the logger.
THEOREM LogInvariant == LogSpec => []IInv
BY InitIInv, NextIInv, PTL DEF LogSpec

\* Whatever the lengths of the pieces and the size of buf_, LogMessage never writes
\* behind the end of its buffer.
THEOREM NoOverrun == LogSpec => []BufferBounds
<1>1. IInv => BufferBounds
  BY DEF IInv
<1> QED BY LogInvariant, <1>1, PTL

\* What LogMessage hands to write() is text and one newline, cut or not.
THEOREM WholeLines == LogSpec => []LinesTerminated
<1>1. IInv => LinesTerminated
  BY DEF IInv
<1> QED BY LogInvariant, <1>1, PTL

\* No thread writes before openLogFile() has set g_log_fd, for any number of threads.
THEOREM OpenFirst == LogSpec => []OpenedBeforeUse
<1>1. IInv => OpenedBeforeUse
  BY DEF IInv, OnceOrdered, OpenedBeforeUse
<1> QED BY LogInvariant, <1>1, PTL

\* Positions, places and descriptors of the logger keep their types.
THEOREM LogTypes == LogSpec => []TypeOK
<1>1. IInv => TypeOK
  BY DEF IInv
<1> QED BY LogInvariant, <1>1, PTL

-----------------------------------------------------------------------------
(* The order of the lines in the file and on the terminal.                 *)

\* What is written to a file or a terminal, and whether two of those are the same message.
Item == [by : Threads, line : Nat, whole : BOOLEAN]
SameLine(a, b) == a.by = b.by /\ a.line = b.line

\* What is in out was logged before, or by a thread that is at one of the places.
Logged(out, places) ==
    \A i \in 1 .. Len(out) :
        /\ out[i].line <= lines[out[i].by]
        /\ out[i].line = lines[out[i].by] => log_pc[out[i].by] \in places

\* The thread that writes holds the mutex.  A message is in the file only once, at the end of it
\* while its thread is about to write it to the terminal.
OrderInv ==
    /\ file \in Seq(Item) /\ terminal \in Seq(Item)
    /\ \A t \in Threads : log_pc[t] \in {"write", "write_stderr", "unlock"} => g_log_mutex = t
    /\ Logged(file, {"write_stderr", "unlock", "idle"}) /\ Logged(terminal, {"unlock", "idle"})
    /\ \A i, j \in 1 .. Len(file) : SameLine(file[i], file[j]) => i = j
    /\ \A t \in Threads : log_pc[t] = "write_stderr" =>
          \A i \in 1 .. Len(file) : file[i].by = t /\ file[i].line = lines[t] => i = Len(file)
    /\ SameOrder

\* A written line has a thread and a number.
LEMMA ItemFields ==
    /\ \A x \in Item : x.by \in Threads /\ x.line \in Nat
    /\ \A t \in Threads : \A n \in Nat : \A w \in BOOLEAN :
          LET x == [by |-> t, line |-> n, whole |-> w] IN x \in Item /\ x.by = t /\ x.line = n
BY DEF Item

\* Nothing is written yet.
LEMMA InitOrder == LogInit => OrderInv
BY DEF LogInit, OrderInv, Logged, SameOrder

\* A step that writes nothing, and takes a thread neither out of its turn with the mutex nor
\* back to where its current message may already be written.
LEMMA SilentOrder ==
    ASSUME OrderInv, TypeOK, UNCHANGED <<file, terminal>>, NEW t \in Threads, NEW pc,
           log_pc' = [log_pc EXCEPT ![t] = pc],
           \A u \in Threads : u # t => lines'[u] = lines[u],
           \A u \in Threads \ {t} : g_log_mutex = u => g_log_mutex' = u,
           \/ lines'[t] = lines[t] /\ log_pc[t] \notin {"write_stderr", "unlock", "idle"}
           \/ lines'[t] = lines[t] /\ log_pc[t] \in {"unlock"} /\ pc = "idle"
           \/ lines'[t] = lines[t] + 1 /\ log_pc[t] = "idle",
           (pc = "write" /\ g_log_mutex' = t) \/ pc \notin {"write", "write_stderr", "unlock"}
    PROVE  OrderInv'
<1>1. /\ file \in Seq(Item) /\ terminal \in Seq(Item)
      /\ \A i \in 1 .. Len(file) : file[i].by \in Threads /\ file[i].line \in Nat
      /\ \A i \in 1 .. Len(terminal) : terminal[i].by \in Threads /\ terminal[i].line \in Nat
  BY ItemFields DEF OrderInv
<1>2. \A u \in Threads : log_pc'[u] = IF u = t THEN pc ELSE log_pc[u]
  BY DEF TypeOK
<1>3. \A u \in Threads : log_pc'[u] \in {"write", "write_stderr", "unlock"} => g_log_mutex' = u
  BY <1>2 DEF OrderInv
<1>4. \A u \in Threads : lines[u] \in Nat
  BY LogAssumption DEF TypeOK
<1>5. ASSUME NEW out \in Seq(Item), NEW places,
             \A i \in 1 .. Len(out) : out[i].by \in Threads /\ out[i].line \in Nat,
             places \subseteq {"write_stderr", "unlock", "idle"}, "unlock" \in places, "idle" \in places,
             Logged(out, places)
      PROVE  \A i \in 1 .. Len(out) :
                 /\ out[i].line <= lines'[out[i].by]
                 /\ out[i].line = lines'[out[i].by] => log_pc'[out[i].by] \in places
  <2> SUFFICES ASSUME NEW i \in 1 .. Len(out)
               PROVE  /\ out[i].line <= lines'[out[i].by]
                      /\ out[i].line = lines'[out[i].by] => log_pc'[out[i].by] \in places
    OBVIOUS
  <2> DEFINE b == out[i].by
             n == out[i].line
  <2>1. /\ b \in Threads /\ n \in Nat /\ n <= lines[b] /\ (n = lines[b] => log_pc[b] \in places)
    BY <1>5 DEF Logged
  <2> HIDE DEF b, n
  <2>2. n <= lines'[b] /\ (n = lines'[b] => log_pc'[b] \in places)
    <3>1. CASE b # t
      BY <1>2, <2>1, <3>1
    <3>2. CASE b = t /\ lines'[t] = lines[t] + 1
      BY <1>4, <2>1, <3>2
    <3>3. CASE b = t /\ lines'[t] = lines[t] /\ log_pc[t] \notin {"write_stderr", "unlock", "idle"}
      BY <1>5, <2>1, <3>3
    <3>4. CASE b = t /\ lines'[t] = lines[t] /\ pc = "idle"
      BY <1>2, <1>5, <2>1, <3>4
    <3> QED BY <3>1, <3>2, <3>3, <3>4
  <2> QED BY <2>2 DEF b, n
<1>6. Logged(file, {"write_stderr", "unlock", "idle"})'
  BY <1>1, <1>5 DEF OrderInv, Logged
<1>7. Logged(terminal, {"unlock", "idle"})'
  BY <1>1, <1>5 DEF OrderInv, Logged
<1>8. \A u \in Threads : log_pc'[u] = "write_stderr" =>
         \A i \in 1 .. Len(file) : file[i].by = u /\ file[i].line = lines'[u] => i = Len(file)
  BY <1>2 DEF OrderInv
<1>9. SameOrder'
  BY DEF OrderInv, SameOrder
<1> QED BY <1>1, <1>3, <1>6, <1>7, <1>8, <1>9 DEF OrderInv

\* What one more line does to a sequence of lines.
LEMMA OneMore ==
    ASSUME NEW s \in Seq(Item), NEW x \in Item
    PROVE  /\ Append(s, x) \in Seq(Item) /\ Len(Append(s, x)) = Len(s) + 1 /\ Len(s) \in Nat
           /\ \A i \in 1 .. (Len(s) + 1) :
                 \/ i \in 1 .. Len(s) /\ Append(s, x)[i] = s[i]
                 \/ i = Len(s) + 1 /\ Append(s, x)[i] = x
OBVIOUS

\* What was written stays in order.
LEMMA SameOrderStays ==
    ASSUME SameOrder, UNCHANGED <<file, terminal>>
    PROVE  SameOrder'
BY DEF SameOrder

\* A write() to the terminal, the first one or the second: the message is not there yet, and
\* if it is in the file, it is the last one.
LEMMA TerminalOrder ==
    ASSUME OrderInv, IInv, NEW t \in Threads, log_pc[t] \in {"write", "write_stderr"},
           log_pc' = [log_pc EXCEPT ![t] = "unlock"], terminal' \in Written(t, terminal),
           UNCHANGED <<file, lines, g_log_mutex>>
    PROVE  OrderInv'
<1> DEFINE L == lines[t]
           n == Len(terminal)
<1>1. TypeOK /\ g_log_mutex = t
  BY DEF IInv, OrderInv
<1>2. /\ log_pc'[t] = "unlock"
      /\ \A u \in Threads : u # t => log_pc'[u] = log_pc[u]
                                     /\ log_pc[u] \notin {"write", "write_stderr", "unlock"}
  BY <1>1 DEF OrderInv, TypeOK
<1>3. \A u \in Threads : log_pc'[u] \in {"write", "write_stderr", "unlock"} => g_log_mutex' = u
  BY <1>1, <1>2
<1>4. L \in Nat
  BY <1>1, LogAssumption DEF TypeOK
<1>5. /\ file \in Seq(Item) /\ terminal \in Seq(Item) /\ n \in Nat /\ Len(file) \in Nat
      /\ \A i \in 1 .. Len(file) : file[i].by \in Threads
      /\ \A i \in 1 .. Len(terminal) : terminal[i].by \in Threads
  BY ItemFields DEF OrderInv
<1>6. \A i \in 1 .. Len(terminal) : ~(terminal[i].by = t /\ terminal[i].line = L)
  BY DEF OrderInv, Logged
<1>7. \A i \in 1 .. Len(file) : file[i].by = t /\ file[i].line = L => i = Len(file)
  BY DEF OrderInv, Logged
<1>8. Logged(file, {"write_stderr", "unlock", "idle"})'
  BY <1>2, <1>5 DEF OrderInv, Logged
<1>9. \A u \in Threads : log_pc'[u] = "write_stderr" =>
         \A i \in 1 .. Len(file) : file[i].by = u /\ file[i].line = lines[u] => i = Len(file)
  BY <1>2
<1>10. \A i, j \in 1 .. Len(file) : SameLine(file[i], file[j]) => i = j
  BY DEF OrderInv
<1>11. CASE terminal' = terminal
  <2>1. Logged(terminal, {"unlock", "idle"})'
    BY <1>2, <1>5, <1>6, <1>11 DEF OrderInv, Logged
  <2>2. SameOrder'
    BY <1>11, SameOrderStays DEF OrderInv
  <2> QED BY <1>3, <1>5, <1>8, <1>9, <1>10, <1>11, <2>1, <2>2 DEF OrderInv
<1>12. ASSUME NEW w \in BOOLEAN, terminal' = Append(terminal, [by |-> t, line |-> L, whole |-> w])
       PROVE  OrderInv'
  <2> DEFINE x == [by |-> t, line |-> L, whole |-> w]
  <2>1. x \in Item /\ x.by = t /\ x.line = L
    BY <1>4, ItemFields
  <2>2. terminal' = Append(terminal, x)
    BY <1>12
  <2> HIDE DEF x
  <2>3. /\ terminal' \in Seq(Item) /\ Len(terminal') = n + 1
        /\ \A i \in 1 .. (n + 1) : \/ i \in 1 .. n /\ terminal'[i] = terminal[i]
                                   \/ i = n + 1 /\ terminal'[i] = x
    BY <1>5, <2>1, <2>2, OneMore
  <2> HIDE DEF n, L
  <2>4. Logged(terminal, {"unlock", "idle"})'
    <3> SUFFICES ASSUME NEW i \in 1 .. (n + 1)
                 PROVE  /\ terminal'[i].line <= lines[terminal'[i].by]
                        /\ terminal'[i].line = lines[terminal'[i].by] =>
                              log_pc'[terminal'[i].by] \in {"unlock", "idle"}
      BY <2>3 DEF Logged
    <3>1. CASE i \in 1 .. n /\ terminal'[i] = terminal[i]
      BY <1>2, <1>5, <1>6, <3>1 DEF OrderInv, Logged, n, L
    <3>2. CASE i = n + 1 /\ terminal'[i] = x
      BY <1>2, <1>4, <2>1, <3>2 DEF L
    <3> QED BY <2>3, <3>1, <3>2
  <2>5. SameOrder'
    <3> SUFFICES ASSUME NEW i \in 1 .. Len(file), NEW j \in 1 .. Len(file), i < j,
                        NEW k \in 1 .. (n + 1), NEW l \in 1 .. (n + 1),
                        SameLine(file[i], terminal'[k]), SameLine(file[j], terminal'[l])
                 PROVE  k < l
      BY <2>3 DEF SameOrder, SameLine
    <3>1. k # n + 1
      <4>1. ~SameLine(file[i], x)
        BY <1>5, <1>7, <2>1 DEF SameLine
      <4>2. k = n + 1 => terminal'[k] = x
        BY <1>5, <2>3 DEF n
      <4> QED BY <4>1, <4>2
    <3>2. k \in 1 .. n /\ terminal'[k] = terminal[k]
      BY <2>3, <3>1
    <3>3. CASE l = n + 1
      BY <1>5, <3>2, <3>3 DEF n
    <3>4. CASE l \in 1 .. n /\ terminal'[l] = terminal[l]
      BY <3>2, <3>4 DEF OrderInv, SameOrder, SameLine, n
    <3> QED BY <2>3, <3>3, <3>4
  <2> QED BY <1>3, <1>5, <1>8, <1>9, <1>10, <2>3, <2>4, <2>5 DEF OrderInv
<1> QED BY <1>11, <1>12 DEF Written

\* The first write(): the message is in neither place yet.
LEMMA WriteLogOrder ==
    ASSUME OrderInv, IInv, NEW t \in Threads, WriteLog(t)
    PROVE  OrderInv'
<1> DEFINE L == lines[t]
           n == Len(file)
<1>1. TypeOK /\ g_log_fd # "none"
  BY DEF IInv, OnceOrdered, WriteLog
<1>2. /\ log_pc[t] = "write" /\ UNCHANGED <<lines, g_log_mutex>> /\ g_log_mutex = t
      /\ log_pc' = [log_pc EXCEPT ![t] = IF g_log_fd = "stderr" THEN "unlock" ELSE "write_stderr"]
  BY DEF WriteLog, OrderInv
<1>3. \A u \in Threads : u # t => log_pc'[u] = log_pc[u]
                                  /\ log_pc[u] \notin {"write", "write_stderr", "unlock"}
  BY <1>1, <1>2 DEF OrderInv, TypeOK
<1>4. \A u \in Threads : log_pc'[u] \in {"write", "write_stderr", "unlock"} => g_log_mutex' = u
  BY <1>2, <1>3
<1>5. L \in Nat
  BY <1>1, LogAssumption DEF TypeOK
<1>6. /\ file \in Seq(Item) /\ terminal \in Seq(Item) /\ n \in Nat
      /\ \A i \in 1 .. Len(file) : file[i].by \in Threads
      /\ \A i \in 1 .. Len(terminal) : terminal[i].by \in Threads
  BY ItemFields DEF OrderInv
<1>7. \A i \in 1 .. Len(file) : ~(file[i].by = t /\ file[i].line = L)
  BY <1>2 DEF OrderInv, Logged
<1>8. \A i \in 1 .. Len(terminal) : ~(terminal[i].by = t /\ terminal[i].line = L)
  BY <1>2 DEF OrderInv, Logged
<1>9. CASE g_log_fd = "file"
  <2>1. terminal' = terminal /\ log_pc'[t] = "write_stderr"
    BY <1>1, <1>2, <1>9 DEF WriteLog, TypeOK
  <2>2. Logged(terminal, {"unlock", "idle"})'
    BY <1>2, <1>3, <1>6, <1>8, <2>1 DEF OrderInv, Logged
  <2>3. CASE file' = file
    <3>1. Logged(file, {"write_stderr", "unlock", "idle"})'
      BY <1>2, <1>3, <1>6, <1>7, <2>3 DEF OrderInv, Logged
    <3>2. \A u \in Threads : log_pc'[u] = "write_stderr" =>
             \A i \in 1 .. Len(file) : file[i].by = u /\ file[i].line = lines[u] => i = Len(file)
      BY <1>3, <1>7
    <3>3. SameOrder'
      BY <2>1, <2>3, SameOrderStays DEF OrderInv
    <3>4. \A i, j \in 1 .. Len(file) : SameLine(file[i], file[j]) => i = j
      BY DEF OrderInv
    <3> QED BY <1>2, <1>4, <1>6, <2>1, <2>2, <2>3, <3>1, <3>2, <3>3, <3>4 DEF OrderInv
  <2>4. ASSUME NEW w \in BOOLEAN, file' = Append(file, [by |-> t, line |-> L, whole |-> w])
        PROVE  OrderInv'
    <3> DEFINE x == [by |-> t, line |-> L, whole |-> w]
    <3>1. x \in Item /\ x.by = t /\ x.line = L
      BY <1>5, ItemFields
    <3>2. file' = Append(file, x)
      BY <2>4
    <3> HIDE DEF x
    <3>3. /\ file' \in Seq(Item) /\ Len(file') = n + 1
          /\ \A i \in 1 .. (n + 1) : \/ i \in 1 .. n /\ file'[i] = file[i]
                                     \/ i = n + 1 /\ file'[i] = x
      BY <1>6, <3>1, <3>2, OneMore
    <3> HIDE DEF n, L
    <3>4. Logged(file, {"write_stderr", "unlock", "idle"})'
      <4> SUFFICES ASSUME NEW i \in 1 .. (n + 1)
                   PROVE  /\ file'[i].line <= lines[file'[i].by]
                          /\ file'[i].line = lines[file'[i].by] =>
                                log_pc'[file'[i].by] \in {"write_stderr", "unlock", "idle"}
        BY <1>2, <3>3 DEF Logged
      <4>1. CASE i \in 1 .. n /\ file'[i] = file[i]
        BY <1>2, <1>3, <1>6, <1>7, <4>1 DEF OrderInv, Logged, n, L
      <4>2. CASE i = n + 1 /\ file'[i] = x
        BY <1>5, <2>1, <3>1, <4>2 DEF L
      <4> QED BY <3>3, <4>1, <4>2
    <3>5. \A u \in Threads : log_pc'[u] = "write_stderr" =>
             \A i \in 1 .. Len(file') : file'[i].by = u /\ file'[i].line = lines[u] => i = Len(file')
      BY <1>3, <1>7, <3>3 DEF n, L
    <3>6. \A i, j \in 1 .. Len(file') : SameLine(file'[i], file'[j]) => i = j
      <4>1. \A i, j \in 1 .. n : SameLine(file[i], file[j]) => i = j
        BY DEF OrderInv, n
      <4>2. \A i \in 1 .. n : ~SameLine(file[i], x) /\ ~SameLine(x, file[i])
        BY <1>7, <3>1 DEF SameLine, n
      <4> QED BY <3>3, <4>1, <4>2
    <3>7. SameOrder'
      <4> SUFFICES ASSUME NEW i \in 1 .. (n + 1), NEW j \in 1 .. (n + 1), i < j,
                          NEW k \in 1 .. Len(terminal), NEW l \in 1 .. Len(terminal),
                          SameLine(file'[i], terminal[k]), SameLine(file'[j], terminal[l])
                   PROVE  k < l
        BY <2>1, <3>3 DEF SameOrder, SameLine
      <4>1. j # n + 1
        <5>1. ~SameLine(x, terminal[l])
          BY <1>8, <3>1 DEF SameLine
        <5>2. j = n + 1 => file'[j] = x
          BY <1>6, <3>3 DEF n
        <5> QED BY <5>1, <5>2
      <4>2. i \in 1 .. n /\ j \in 1 .. n /\ file'[i] = file[i] /\ file'[j] = file[j]
        BY <1>6, <3>3, <4>1 DEF n
      <4> QED BY <4>2 DEF OrderInv, SameOrder, SameLine, n
    <3> QED BY <1>2, <1>4, <1>6, <2>1, <2>2, <3>3, <3>4, <3>5, <3>6, <3>7 DEF OrderInv
  <2>5. file' = file \/ \E w \in BOOLEAN : file' = Append(file, [by |-> t, line |-> L, whole |-> w])
    BY <1>9 DEF WriteLog, Written
  <2> QED BY <2>3, <2>4, <2>5
<1>10. CASE g_log_fd = "stderr"
  <2>1. /\ terminal' \in Written(t, terminal) /\ file' = file
        /\ log_pc' = [log_pc EXCEPT ![t] = "unlock"]
    BY <1>10 DEF WriteLog
  <2> QED BY <1>2, <2>1, TerminalOrder
<1> QED BY <1>1, <1>9, <1>10 DEF TypeOK

\* Every step keeps OrderInv.
LEMMA NextOrder == IInv /\ OrderInv /\ [LogNext]_logVars => OrderInv'
<1> SUFFICES ASSUME IInv, OrderInv, [LogNext]_logVars PROVE OrderInv'
  OBVIOUS
<1>0. TypeOK
  BY DEF IInv
<1>1. ASSUME NEW t \in Threads, Begin(t) PROVE OrderInv'
  <2>1. /\ log_pc[t] = "idle" /\ log_pc' = [log_pc EXCEPT ![t] = "compose"]
        /\ lines' = [lines EXCEPT ![t] = lines[t] + 1] /\ UNCHANGED <<file, terminal, g_log_mutex>>
    BY <1>1 DEF Begin, outVars
  <2>2. lines'[t] = lines[t] + 1 /\ \A u \in Threads : u # t => lines'[u] = lines[u]
    BY <1>0, <2>1 DEF TypeOK
  <2> QED BY <1>0, <2>1, <2>2, SilentOrder
<1>2. ASSUME NEW t \in Threads, AppendPiece(t) \/ AppendChar(t) PROVE OrderInv'
  <2>1. log_pc[t] = "compose" /\ UNCHANGED <<log_pc, lines, file, terminal, g_log_mutex>>
    BY <1>2 DEF AppendPiece, AppendChar, outVars
  <2>2. log_pc' = [log_pc EXCEPT ![t] = "compose"]
    BY <1>0, <2>1 DEF TypeOK
  <2> QED BY <1>0, <2>1, <2>2, SilentOrder
<1>3. ASSUME NEW t \in Threads, Terminate(t) \/ OnceRuns(t) \/ openLogFile(t) \/ OnceDone(t)
      PROVE  OrderInv'
  <2>1. /\ log_pc[t] \in {"compose", "once", "open"}
        /\ UNCHANGED <<lines, file, terminal, g_log_mutex>>
    BY <1>3 DEF Terminate, OnceRuns, openLogFile, OnceDone, outVars
  <2>2. PICK pc \in {"once", "open", "lock"} : log_pc' = [log_pc EXCEPT ![t] = pc]
    BY <1>3 DEF Terminate, OnceRuns, openLogFile, OnceDone
  <2> QED BY <1>0, <2>1, <2>2, SilentOrder
<1>4. ASSUME NEW t \in Threads, Lock(t) PROVE OrderInv'
  <2>1. /\ log_pc[t] = "lock" /\ g_log_mutex = Nobody /\ g_log_mutex' = t
        /\ log_pc' = [log_pc EXCEPT ![t] = "write"] /\ UNCHANGED <<lines, file, terminal>>
    BY <1>4 DEF Lock
  <2> QED BY <1>0, <2>1, SilentOrder, NobodyAssumption
<1>5. ASSUME NEW t \in Threads, WriteLog(t) PROVE OrderInv'
  BY <1>5, WriteLogOrder
<1>6. ASSUME NEW t \in Threads, WriteTerminal(t) PROVE OrderInv'
  BY <1>6, TerminalOrder DEF WriteTerminal
<1>7. ASSUME NEW t \in Threads, Unlock(t) PROVE OrderInv'
  <2>1. /\ log_pc[t] = "unlock" /\ g_log_mutex = t
        /\ log_pc' = [log_pc EXCEPT ![t] = "idle"] /\ UNCHANGED <<lines, file, terminal>>
    BY <1>7 DEF Unlock, OrderInv
  <2> QED BY <1>0, <2>1, SilentOrder
<1>8. CASE UNCHANGED logVars
  BY <1>8 DEF logVars, OrderInv, Logged, SameOrder
<1> QED BY <1>1, <1>2, <1>3, <1>4, <1>5, <1>6, <1>7, <1>8 DEF LogNext, ThreadStep, Elsewhere

\* However the threads interleave and whatever write() takes of a line, the lines that reach
\* both the log file and the terminal are in the same order in both: g_log_mutex is held over
\* the two writes of a message.
THEOREM LogOrder == LogSpec => []SameOrder
<1>1. IInv /\ OrderInv => SameOrder
  BY DEF OrderInv
<1> QED BY <1>1, LogInvariant, InitOrder, NextOrder, PTL DEF LogSpec
=============================================================================
