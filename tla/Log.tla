-------------------------------- MODULE Log --------------------------------
(***************************************************************************)
(* The logger, include/log.hpp: LogMessage, which composes a line in a     *)
(* buffer of fixed size on the stack and writes it to the log file and to  *)
(* the terminal when it is destroyed, and the opening of the file.         *)
(*                                                                         *)
(* A cell of the buffer holds a character of the text ("c"), a newline     *)
(* ("n"), a NUL ("0") or what was there before ("?").  The memory has      *)
(* BUF_SIZE more cells than buf_, so that a write past its end would show. *)
(* A message above g_log_level takes no step.                              *)
(***************************************************************************)
EXTENDS Integers, Sequences

CONSTANTS
    Threads,
    BUF_SIZE,
    Lengths,        \* lengths of the formatted pieces of a message
    MaxLines        \* bound: messages of a thread

ASSUME LogAssumption ==
    /\ BUF_SIZE \in Nat /\ BUF_SIZE >= 3
    /\ Lengths \subseteq Nat
    /\ MaxLines \in Nat

Nobody == "nobody"
ASSUME NobodyAssumption == Nobody \notin Threads

VARIABLES
    log_pc, buf_, pos_, lines,   \* of each thread: where it is, its message, its count
    once,                        \* pthread_once: "never", "running" or "done"
    g_log_fd,                    \* "none" (-1), "file" or "stderr"
    g_log_mutex,                 \* the thread that holds it, or Nobody
    file, terminal               \* what was written: sequences of [by, line, whole]

logVars == <<log_pc, buf_, pos_, lines, once, g_log_fd, g_log_mutex, file, terminal>>

outVars == <<once, g_log_fd, g_log_mutex, file, terminal>>

-----------------------------------------------------------------------------
(* Composing a message.                                                    *)

Memory == 0 .. (2 * BUF_SIZE - 1)

Smaller(a, b) == IF a < b THEN a ELSE b

\* snprintf() of n characters to buffer b from p on, with room for size bytes.
snprintf(b, p, size, n) ==
    LET end == p + Smaller(n, size - 1)
    IN  [i \in Memory |-> IF i \in p .. (end - 1) THEN "c" ELSE IF i = end THEN "0" ELSE b[i]]

CapMissing(p) == p   \* faulty

CapLate(p) == IF p >= BUF_SIZE - 1 THEN BUF_SIZE - 1 ELSE p   \* faulty

Cap(p) == IF p >= BUF_SIZE - 1 THEN BUF_SIZE - 2 ELSE p

LogInit ==
    /\ log_pc = [t \in Threads |-> "idle"]
    /\ buf_ = [t \in Threads |-> [i \in Memory |-> "?"]]
    /\ pos_ = [t \in Threads |-> 0]
    /\ lines = [t \in Threads |-> 0]
    /\ once = "never" /\ g_log_fd = "none" /\ g_log_mutex = Nobody
    /\ file = <<>> /\ terminal = <<>>

\* The constructor: level, time, file and line.
Begin(t) ==
    /\ log_pc[t] = "idle" /\ lines[t] < MaxLines
    /\ \E n \in Lengths :
          /\ buf_' = [buf_ EXCEPT ![t] = snprintf([i \in Memory |-> "?"], 0, BUF_SIZE - 1, n)]
          /\ pos_' = [pos_ EXCEPT ![t] = Cap(n)]
    /\ lines' = [lines EXCEPT ![t] = lines[t] + 1]
    /\ log_pc' = [log_pc EXCEPT ![t] = "compose"]
    /\ UNCHANGED outVars

\* operator<< of a string or a number, of LogErrnoMessage too.
AppendPiece(t) ==
    /\ log_pc[t] = "compose"
    /\ pos_[t] < BUF_SIZE - 1
    /\ \E n \in Lengths :
          /\ buf_' = [buf_ EXCEPT ![t] = snprintf(buf_[t], pos_[t], BUF_SIZE - 1 - pos_[t], n)]
          /\ pos_' = [pos_ EXCEPT ![t] = IF n > 0 THEN Cap(pos_[t] + n) ELSE pos_[t]]
    /\ UNCHANGED <<log_pc, lines, outVars>>

\* operator<<(char) writes no NUL.
AppendChar(t) ==
    /\ log_pc[t] = "compose"
    /\ pos_[t] < BUF_SIZE - 2
    /\ buf_' = [buf_ EXCEPT ![t][pos_[t]] = "c"]
    /\ pos_' = [pos_ EXCEPT ![t] = pos_[t] + 1]
    /\ UNCHANGED <<log_pc, lines, outVars>>

-----------------------------------------------------------------------------
(* The destructor.                                                         *)

Terminate(t) ==
    LET p == IF pos_[t] < BUF_SIZE - 1 THEN pos_[t] + 1 ELSE pos_[t]
    IN  /\ log_pc[t] = "compose"
        /\ buf_' = [buf_ EXCEPT ![t] = [i \in Memory |->
                       IF i = p THEN "0" ELSE IF i = p - 1 /\ p # pos_[t] THEN "n" ELSE buf_[t][i]]]
        /\ pos_' = [pos_ EXCEPT ![t] = p]
        /\ log_pc' = [log_pc EXCEPT ![t] = "once"]
        /\ UNCHANGED <<lines, outVars>>

\* ensureLogOpen(): the first thread runs openLogFile(), the others wait for it.
OnceRuns(t) ==
    /\ log_pc[t] = "once" /\ once = "never"
    /\ once' = "running"
    /\ log_pc' = [log_pc EXCEPT ![t] = "open"]
    /\ UNCHANGED <<buf_, pos_, lines, g_log_fd, g_log_mutex, file, terminal>>

openLogFile(t) ==
    /\ log_pc[t] = "open"
    /\ g_log_fd' \in {"file", "stderr"}      \* stderr: open() failed
    /\ once' = "done"
    /\ log_pc' = [log_pc EXCEPT ![t] = "lock"]
    /\ UNCHANGED <<buf_, pos_, lines, g_log_mutex, file, terminal>>

OnceStarted == once # "never"   \* faulty: a flag of one's own for pthread_once()

OncePassed == once = "done"

OnceDone(t) ==
    /\ log_pc[t] = "once" /\ OncePassed
    /\ log_pc' = [log_pc EXCEPT ![t] = "lock"]
    /\ UNCHANGED <<buf_, pos_, lines, outVars>>

LockMissing(t) ==   \* faulty
    /\ log_pc[t] = "lock"
    /\ log_pc' = [log_pc EXCEPT ![t] = "write"]
    /\ UNCHANGED <<buf_, pos_, lines, outVars>>

Lock(t) ==
    /\ log_pc[t] = "lock" /\ g_log_mutex = Nobody
    /\ g_log_mutex' = t
    /\ log_pc' = [log_pc EXCEPT ![t] = "write"]
    /\ UNCHANGED <<buf_, pos_, lines, once, g_log_fd, file, terminal>>

\* write() takes the line, a part of it, or nothing; the result is ignored.
Written(t, out) ==
    {out} \cup {Append(out, [by |-> t, line |-> lines[t], whole |-> w]) : w \in BOOLEAN}

WriteLog(t) ==
    /\ log_pc[t] = "write"
    /\ IF g_log_fd = "file"
       THEN file' \in Written(t, file) /\ UNCHANGED terminal
       ELSE terminal' \in Written(t, terminal) /\ UNCHANGED file
    /\ log_pc' = [log_pc EXCEPT ![t] = IF g_log_fd = "stderr" THEN "unlock" ELSE "write_stderr"]
    /\ UNCHANGED <<buf_, pos_, lines, once, g_log_fd, g_log_mutex>>

WriteTerminal(t) ==
    /\ log_pc[t] = "write_stderr"
    /\ terminal' \in Written(t, terminal)
    /\ log_pc' = [log_pc EXCEPT ![t] = "unlock"]
    /\ UNCHANGED <<buf_, pos_, lines, once, g_log_fd, g_log_mutex, file>>

\* The message is gone.
Unlock(t) ==
    /\ log_pc[t] = "unlock"
    /\ g_log_mutex' = Nobody
    /\ buf_' = [buf_ EXCEPT ![t] = [i \in Memory |-> "?"]]
    /\ pos_' = [pos_ EXCEPT ![t] = 0]
    /\ log_pc' = [log_pc EXCEPT ![t] = "idle"]
    /\ UNCHANGED <<lines, once, g_log_fd, file, terminal>>

\* A thread that is not logging goes on with its work.
Elsewhere == (\E t \in Threads : log_pc[t] = "idle") /\ UNCHANGED logVars

ThreadStep(t) ==
    \/ AppendPiece(t) \/ AppendChar(t) \/ Terminate(t)
    \/ OnceRuns(t) \/ openLogFile(t) \/ OnceDone(t)
    \/ Lock(t) \/ WriteLog(t) \/ WriteTerminal(t) \/ Unlock(t)

LogNext == (\E t \in Threads : Begin(t) \/ ThreadStep(t)) \/ Elsewhere

LogSpec == LogInit /\ [][LogNext]_logVars

-----------------------------------------------------------------------------
(* Properties.                                                             *)

\* Every variable of the logger has its type; pos_ stays inside buf_, however long
\* the pieces are.
TypeOK ==
    /\ log_pc \in [Threads -> {"idle", "compose", "once", "open", "lock", "write",
                               "write_stderr", "unlock"}]
    /\ buf_ \in [Threads -> [Memory -> {"c", "n", "0", "?"}]]
    /\ pos_ \in [Threads -> 0 .. (BUF_SIZE - 1)]
    /\ lines \in [Threads -> 0 .. MaxLines]
    /\ once \in {"never", "running", "done"}
    /\ g_log_fd \in {"none", "file", "stderr"}
    /\ g_log_mutex \in Threads \cup {Nobody}

\* However long the pieces are, nothing is written behind the end of buf_.
BufferBounds ==
    \A t \in Threads : \A i \in Memory : i >= BUF_SIZE => buf_[t][i] = "?"

Composed == {"once", "open", "lock", "write", "write_stderr", "unlock"}

\* The bytes given to write() are text and one newline at their end, also of a line
\* that had to be cut: no NUL, and nothing of the uninitialised buffer.
LinesTerminated ==
    \A t \in Threads : log_pc[t] \in Composed =>
        /\ pos_[t] > 0 /\ buf_[t][pos_[t] - 1] = "n"
        /\ \A i \in Memory : i < pos_[t] - 1 => buf_[t][i] = "c"

\* The file is opened, or replaced by stderr, before any thread writes.
OpenedBeforeUse ==
    \A t \in Threads : log_pc[t] \in {"lock", "write", "write_stderr", "unlock"} => g_log_fd # "none"

\* Lines of several threads that reach both the file and the terminal are in the
\* same order in both.
SameOrder ==
    \A i, j \in 1 .. Len(file) : \A k, l \in 1 .. Len(terminal) :
        LET Same(a, b) == a.by = b.by /\ a.line = b.line
        IN  i < j /\ Same(file[i], terminal[k]) /\ Same(file[j], terminal[l]) => k < l
=============================================================================
